---------------------------- MODULE Spec2Model ----------------------------
(***************************************************************************)
(* TowerGuard: the feature aggregator (app/ml/feature_pipeline.py), the    *)
(* rule-based scoring engine (app/ml/scoring.py), the site risk model      *)
(* (app/ml/models.py), the cache and the HTTP client of the environmental  *)
(* API clients and the source clients themselves                           *)
(* (app/ml/environmental_api_client.py), the prediction records            *)
(* (app/ml/model.py), the bulk tower enrichment                            *)
(* (app/services/tower_enrichment_service.py) and the sites API            *)
(* (app/api/sites.py) as state machines.                                   *)
(*                                                                         *)
(* Python floats are fixed-point numbers counted in thousandths, together  *)
(* with nan and the two infinities; None is a value of its own.  A product *)
(* or quotient is rounded down to the next thousandth.                     *)
(***************************************************************************)
EXTENDS Integers, Sequences, FiniteSets, TLC

VARIABLES
    \* ---- scoring engine (scoring.py)
    site_features,    \* the SiteFeatures argument of the latest compute_health_score
    score_result,     \* the dictionary the latest compute_health_score returned
    earlier_result,   \* the dictionary an earlier compute_health_score returned
    utcnow,           \* the clock datetime.utcnow() reads
    \* ---- get_health_category (scoring.py)
    cat_score,        \* the argument of the latest get_health_category
    cat_result,       \* what it returned
    \* ---- SiteRiskModel (models.py)
    model,            \* the instance: its state, weights, bias and version
    risk_features,    \* the features dictionary handed to predict
    risk_result,      \* what the latest predict returned
    \* ---- extract_features_for_site (feature_pipeline.py)
    pc,               \* where the call stands
    request,          \* its arguments: site_id, start_date, end_date
    frame,            \* its local variables
    source_returns,   \* what each source gave this call
    site_features_db, \* db["site_features"]: the documents inserted
    summary,          \* what fetch_rainfall_summary returned
    \* ---- CacheManager (environmental_api_client.py)
    cache_files,      \* the cache directory: for each key its file, if any
    cache_clock,      \* the clock datetime.now() reads, in hours
    cache_got,        \* the latest get: its key, its time and what it returned
    cache_last_set,   \* for each key the time and the value of the latest set
    \* ---- HTTPClient (environmental_api_client.py)
    http,             \* one HTTPClient.get: the instance's settings, the locals
                      \* of the call and the requests and sleeps it has made
    \* ---- create_prediction_for_site_features (model.py)
    site_predictions_db, \* db["site_predictions"]: the documents inserted
    prediction_calls, \* the site_features_doc argument of each call so far
    \* ---- enrich_all_water_towers (tower_enrichment_service.py)
    water_towers_db,  \* db["water_towers"]: the tower documents, in natural order
    enrich_all,       \* one enrich_all_water_towers: its cursor, its locals and
                      \* the enrichments it has started and ended
    \* ---- CacheManager shared by several clients (environmental_api_client.py)
    cache_dir,        \* the cache directory: for each key the text of its file
    cache_clients,    \* each client: the get or set it is in, and what it got
    cache_sets,       \* for each key the values whose set has begun, has ended
    \* ---- the sites API (api/sites.py)
    sites_db,         \* db["sites"]: the site documents
    sites_api,        \* the latest request and its answer
    sites_history,    \* the name each identifier was created with, and the
                      \* identifiers deleted
    \* ---- the source clients (environmental_api_client.py)
    source_clients    \* their cache files and clock, the fixture files, and the
                      \* latest call with what it did

scoreVars == <<site_features, score_result, earlier_result, utcnow>>
catVars == <<cat_score, cat_result>>
riskVars == <<model, risk_features, risk_result>>
extractVars == <<pc, request, frame, source_returns, site_features_db, summary>>
cacheVars == <<cache_files, cache_clock, cache_got, cache_last_set>>
httpVars == <<http>>
predictionVars == <<site_predictions_db, prediction_calls>>
enrichVars == <<water_towers_db, enrich_all>>
sharedVars == <<cache_dir, cache_clients, cache_sets>>
siteVars == <<sites_db, sites_api, sites_history>>
clientVars == <<source_clients>>
lastVars == <<sharedVars, siteVars, clientVars>>
laterVars == <<cacheVars, httpVars, predictionVars, enrichVars, lastVars>>
vars == <<site_features, score_result, earlier_result, utcnow, cat_score, cat_result,
          model, risk_features, risk_result,
          pc, request, frame, source_returns, site_features_db, summary,
          cache_files, cache_clock, cache_got, cache_last_set, http,
          site_predictions_db, prediction_calls, water_towers_db, enrich_all,
          cache_dir, cache_clients, cache_sets, sites_db, sites_api, sites_history,
          source_clients>>

-----------------------------------------------------------------------------
(* Python values *)

None == [k |-> "None", v |-> 0]
Float(x) == [k |-> "float", v |-> x]
NaN == [k |-> "nan", v |-> 0]
PosInf == [k |-> "inf", v |-> 1]
NegInf == [k |-> "inf", v |-> -1]

\* A whole number n as a float: n.0
Whole(n) == Float(n * 1000)

\* an expression that raised TypeError instead of giving a value; whatever is
\* computed from it raised too
TypeErr == [k |-> "TypeError", v |-> 0]

IsNone(x) == x.k = "None"
Raised(x) == x.k = "TypeError"
IsFinite(x) == x.k = "float"

\* a < b and a <= b on floats: every comparison with nan is False
FLt(a, b) ==
    CASE a.k = "nan" \/ b.k = "nan" -> FALSE
      [] a.k = "inf" /\ b.k = "inf" -> a.v < b.v
      [] a.k = "inf" -> a.v < 0
      [] b.k = "inf" -> b.v > 0
      [] OTHER -> a.v < b.v

FLe(a, b) ==
    CASE a.k = "nan" \/ b.k = "nan" -> FALSE
      [] a.k = "inf" /\ b.k = "inf" -> a.v <= b.v
      [] a.k = "inf" -> a.v < 0
      [] b.k = "inf" -> b.v > 0
      [] OTHER -> a.v <= b.v

FGt(a, b) == FLt(b, a)
FGe(a, b) == FLe(b, a)

\* the builtins min(a, b) and max(a, b): the first argument unless the second
\* is strictly smaller (larger)
PyMin(a, b) == IF Raised(a) \/ Raised(b) THEN TypeErr ELSE IF FLt(b, a) THEN b ELSE a
PyMax(a, b) == IF Raised(a) \/ Raised(b) THEN TypeErr ELSE IF FGt(b, a) THEN b ELSE a

\* float(x): TypeError on None
PyFloat(x) == IF IsNone(x) THEN TypeErr ELSE x

FNeg(a) ==
    CASE a.k = "float" -> Float(0 - a.v)
      [] a.k = "inf" -> [k |-> "inf", v |-> 0 - a.v]
      [] OTHER -> a

FAdd(a, b) ==
    CASE Raised(a) \/ Raised(b) -> TypeErr
      [] a.k = "nan" \/ b.k = "nan" -> NaN
      [] a.k = "inf" /\ b.k = "inf" -> IF a.v = b.v THEN a ELSE NaN
      [] a.k = "inf" -> a
      [] b.k = "inf" -> b
      [] OTHER -> Float(a.v + b.v)

FSub(a, b) == FAdd(a, FNeg(b))

Sign(n) == IF n > 0 THEN 1 ELSE IF n < 0 THEN -1 ELSE 0

FMul(a, b) ==
    CASE Raised(a) \/ Raised(b) -> TypeErr
      [] a.k = "nan" \/ b.k = "nan" -> NaN
      [] a.k = "inf" \/ b.k = "inf" ->
            IF Sign(a.v) * Sign(b.v) = 0 THEN NaN
            ELSE [k |-> "inf", v |-> Sign(a.v) * Sign(b.v)]
      [] OTHER -> Float((a.v * b.v) \div 1000)

\* a / b for a finite divisor b other than zero
FDiv(a, b) ==
    CASE Raised(a) \/ Raised(b) -> TypeErr
      [] a.k = "nan" -> NaN
      [] a.k = "inf" -> [k |-> "inf", v |-> a.v * Sign(b.v)]
      [] OTHER -> Float((a.v * 1000) \div b.v)

\* format(x, ".<d>f"): x rounded to a multiple of step thousandths, ties to even
RoundTo(n, step) ==
    LET q == n \div step
        r == n % step
    IN  IF 2 * r > step \/ (2 * r = step /\ q % 2 = 1)
        THEN (q + 1) * step ELSE q * step

Fmt(x, step) == IF x.k = "float" THEN Float(RoundTo(x.v, step)) ELSE x

-----------------------------------------------------------------------------
(* scoring.py: the rules and the categories *)

ScoringRule(feature_name, condition, points_if_met, points_if_not_met) ==
    [feature_name |-> feature_name, condition |-> condition,
     points_if_met |-> points_if_met, points_if_not_met |-> points_if_not_met]

SCORING_RULES == <<
    ScoringRule("ndvi_mean", "NDVI mean > 0.5", Whole(40), Whole(0)),
    ScoringRule("ndvi_std", "NDVI std < 0.2", Whole(10), Whole(0)),
    ScoringRule("rainfall_mm", "Rainfall > 120 mm", Whole(20), Whole(0)),
    ScoringRule("temp_mean_c", "Temperature 15-25 C", Whole(20), Whole(0)),
    ScoringRule("elevation_m", "Elevation 1500-3000 m", Whole(10), Whole(0)) >>

RECURSIVE SumPointsIfMet(_)
SumPointsIfMet(n) ==
    IF n = 0 THEN Whole(0)
    ELSE FAdd(SumPointsIfMet(n - 1), SCORING_RULES[n].points_if_met)

MAX_POINTS == SumPointsIfMet(Len(SCORING_RULES))

HealthCategory(name, min_score, max_score) ==
    [name |-> name, min_score |-> min_score, max_score |-> max_score]

HEALTH_CATEGORIES == <<
    HealthCategory("Critical", Float(0), Float(200)),
    HealthCategory("Poor", Float(200), Float(400)),
    HealthCategory("Fair", Float(400), Float(600)),
    HealthCategory("Good", Float(600), Float(800)),
    HealthCategory("Excellent", Float(800), Float(1000)) >>

\* the loop of get_health_category from the i-th category on; "by" tells the
\* return statement that answered
RECURSIVE CategoryFrom(_, _)
CategoryFrom(score, i) ==
    IF i > Len(HEALTH_CATEGORIES)
    THEN [category |-> HEALTH_CATEGORIES[Len(HEALTH_CATEGORIES)], by |-> "fallback"]
    ELSE IF FLe(HEALTH_CATEGORIES[i].min_score, score)
            /\ FLe(score, HEALTH_CATEGORIES[i].max_score)
         THEN [category |-> HEALTH_CATEGORIES[i], by |-> "loop"]
         ELSE CategoryFrom(score, i + 1)

Clamp01(score) == PyMax(Float(0), PyMin(Float(1000), score))

\* the score looked up without the clamp
get_health_category_unclamped(score) == CategoryFrom(score, 1)

get_health_category(score) == CategoryFrom(Clamp01(score), 1)

-----------------------------------------------------------------------------
(* scoring.py: the five rule functions; each returns (points, is_met,      *)
(* explanation), or raises                                                 *)

PyBool(b) == IF b THEN "True" ELSE "False"

\* the operators > < <= of Python: an ordering comparison with None raises
\* TypeError
PyGt(a, b) == IF IsNone(a) \/ IsNone(b) THEN "TypeError" ELSE PyBool(FGt(a, b))
PyLt(a, b) == IF IsNone(a) \/ IsNone(b) THEN "TypeError" ELSE PyBool(FLt(a, b))
PyLe(a, b) == IF IsNone(a) \/ IsNone(b) THEN "TypeError" ELSE PyBool(FLe(a, b))

\* the chained comparison lo <= x <= hi
PyBetween(lo, x, hi) ==
    IF PyLe(lo, x) # "True" THEN PyLe(lo, x) ELSE PyLe(x, hi)

Unavailable(label) ==
    [label |-> label, text |-> "unavailable (treated as unmet)",
     value |-> None, op |-> "", bound |-> ""]

Compared(label, value, op, bound) ==
    [label |-> label, text |-> "=", value |-> value, op |-> op, bound |-> bound]

RuleOutcome(points, is_met, explanation) ==
    [points |-> points, is_met |-> is_met, explanation |-> explanation]

\* the function raised instead of returning
RuleRaised(error) == RuleOutcome(None, error, Unavailable(""))

\* the points of the rule whatever is_met says
PointsOf_regardless(rule, is_met) == rule.points_if_met

PointsOf(rule, is_met) ==
    IF is_met = "True" THEN rule.points_if_met ELSE rule.points_if_not_met

\* the part of a rule function after its is_met is known
Judged(rule, is_met, label, shown, op_met, op_unmet, bound) ==
    IF is_met = "TypeError" THEN RuleRaised("TypeError")
    ELSE RuleOutcome(PointsOf(rule, is_met), is_met,
             Compared(label, shown, IF is_met = "True" THEN op_met ELSE op_unmet, bound))

\* >= where the rule says >
apply_ndvi_mean_rule_inclusive(ndvi_mean) ==
    IF IsNone(ndvi_mean)
    THEN RuleOutcome(Whole(0), "None", Unavailable("NDVI mean"))
    ELSE Judged(SCORING_RULES[1], PyBool(FGe(ndvi_mean, Float(500))),
                "NDVI mean", Fmt(ndvi_mean, 1), ">", "<=", "0.5")

apply_ndvi_mean_rule(ndvi_mean) ==
    IF IsNone(ndvi_mean)
    THEN RuleOutcome(Whole(0), "None", Unavailable("NDVI mean"))
    ELSE Judged(SCORING_RULES[1], PyGt(ndvi_mean, Float(500)),
                "NDVI mean", Fmt(ndvi_mean, 1), ">", "<=", "0.5")

\* a missing value read as 0.0 before the comparison
apply_ndvi_std_rule_defaulted(ndvi_std) ==
    LET value == IF IsNone(ndvi_std) THEN Float(0) ELSE ndvi_std
    IN  Judged(SCORING_RULES[2], PyLt(value, Float(200)),
               "NDVI std", Fmt(value, 1), "<", ">=", "0.2")

apply_ndvi_std_rule(ndvi_std) ==
    IF IsNone(ndvi_std)
    THEN RuleOutcome(Whole(0), "None", Unavailable("NDVI std"))
    ELSE Judged(SCORING_RULES[2], PyLt(ndvi_std, Float(200)),
                "NDVI std", Fmt(ndvi_std, 1), "<", ">=", "0.2")

apply_rainfall_rule(rainfall_mm) ==
    IF IsNone(rainfall_mm)
    THEN RuleOutcome(Whole(0), "None", Unavailable("Rainfall"))
    ELSE Judged(SCORING_RULES[3], PyGt(rainfall_mm, Whole(120)),
                "Rainfall", Fmt(rainfall_mm, 100), ">", "<=", "120 mm")

apply_temperature_rule(temp_mean_c) ==
    IF IsNone(temp_mean_c)
    THEN RuleOutcome(Whole(0), "None", Unavailable("Temperature"))
    ELSE Judged(SCORING_RULES[4], PyBetween(Whole(15), temp_mean_c, Whole(25)),
                "Temperature", Fmt(temp_mean_c, 100), "in", "not in", "[15, 25] C")

apply_elevation_rule(elevation_m) ==
    IF IsNone(elevation_m)
    THEN RuleOutcome(Whole(0), "None", Unavailable("Elevation"))
    ELSE Judged(SCORING_RULES[5], PyBetween(Whole(1500), elevation_m, Whole(3000)),
                "Elevation", Fmt(elevation_m, 1000), "in", "not in", "[1500, 3000] m")

-----------------------------------------------------------------------------
(* scoring.py: compute_health_score *)

SiteFeatures(ndvi_mean, ndvi_std, rainfall_mm, temp_mean_c, elevation_m) ==
    [ndvi_mean |-> ndvi_mean, ndvi_std |-> ndvi_std, rainfall_mm |-> rainfall_mm,
     temp_mean_c |-> temp_mean_c, elevation_m |-> elevation_m]

\* the explanation carrying the time of the call
RuleResult_stamped(rule, feature_value, outcome) ==
    [rule |-> rule.condition, feature_value |-> feature_value,
     met |-> outcome.is_met, points_earned |-> outcome.points,
     explanation |-> [outcome.explanation EXCEPT !.value = Whole(utcnow)]]

RuleResult(rule, feature_value, outcome) ==
    [rule |-> rule.condition, feature_value |-> feature_value,
     met |-> outcome.is_met, points_earned |-> outcome.points,
     explanation |-> outcome.explanation]

\* total_points after the first n entries of the outcomes, starting from 0.0
RECURSIVE TotalPoints(_, _)
TotalPoints(outcomes, n) ==
    IF n = 0 THEN Whole(0)
    ELSE FAdd(TotalPoints(outcomes, n - 1), outcomes[n].points)

\* the division by MAX_POINTS left out
Normalize_undivided(total_points) == total_points

Normalize(total_points) ==
    IF FGt(MAX_POINTS, Whole(0)) THEN FDiv(total_points, MAX_POINTS) ELSE Whole(0)

\* what compute_health_score gives back: the dictionary, or the exception
ScoreRaised(error) ==
    [raised |-> error, raw_points |-> None, max_points |-> None,
     health_score |-> None, category_name |-> "", rule_results |-> << >>,
     timestamp |-> 0]

compute_health_score(sf, now) ==
    LET outcomes == << apply_ndvi_mean_rule(sf.ndvi_mean),
                       apply_ndvi_std_rule(sf.ndvi_std),
                       apply_rainfall_rule(sf.rainfall_mm),
                       apply_temperature_rule(sf.temp_mean_c),
                       apply_elevation_rule(sf.elevation_m) >>
        values == << sf.ndvi_mean, sf.ndvi_std, sf.rainfall_mm,
                     sf.temp_mean_c, sf.elevation_m >>
        rule_results == [i \in 1..5 |-> RuleResult(SCORING_RULES[i], values[i], outcomes[i])]
        total_points == TotalPoints(outcomes, 5)
        normalized_score == Normalize(total_points)
        category == get_health_category(normalized_score).category
    IN  IF \E i \in 1..5 : outcomes[i].is_met = "TypeError"
        THEN ScoreRaised("TypeError")
        ELSE [raised |-> "",
              raw_points |-> total_points,
              max_points |-> MAX_POINTS,
              health_score |-> normalized_score,
              category_name |-> category.name,
              rule_results |-> rule_results,
              timestamp |-> now]

\* _generate_explanation, lines 482-486: the lines of the scoring breakdown,
\* each with its mark, its rule and its points printed with no decimals
ScoringBreakdown(result) ==
    [i \in 1..Len(result.rule_results) |->
        [status |-> IF result.rule_results[i].met = "True" THEN "passed" ELSE "failed",
         rule |-> result.rule_results[i].rule,
         points |-> Fmt(result.rule_results[i].points_earned, 1000)]]

-----------------------------------------------------------------------------
(* the inputs of the scoring engine *)

MaxClock == 1

NdviMeanValues == {None, Float(499), Float(500), Float(501), Float(600), NaN}
NdviStdValues == {None, Float(100), Float(199), Float(200), PosInf}
RainfallValues == {None, Whole(120), Float(120001), Whole(150), NegInf}
TempValues == {None, Float(14900), Whole(15), Whole(20), Whole(25), Float(25100)}
ElevationValues == {None, Whole(1499), Whole(1500), Whole(2000), Whole(3000), Whole(3001)}

AllSiteFeatures ==
    { SiteFeatures(a, b, c, d, e) :
        a \in NdviMeanValues, b \in NdviStdValues, c \in RainfallValues,
        d \in TempValues, e \in ElevationValues }

\* a smaller set, for the runs that keep two calls side by side
FewSiteFeatures ==
    { SiteFeatures(a, b, Whole(150), d, e) :
        a \in {None, Float(600)}, b \in {None, Float(100)},
        d \in {Whole(20), NaN}, e \in {None, Whole(2000)} }

NoFeatures == SiteFeatures(None, None, None, None, None)

NoCall == [features |-> NoFeatures, result |-> ScoreRaised("")]

NoCategory == [category |-> HealthCategory("", None, None), by |-> ""]

-----------------------------------------------------------------------------
(* the scoring engine as a state machine *)

\* the caller holds a SiteFeatures drawn from F; nothing has been scored yet
InitScoring(F) ==
    /\ site_features \in F
    /\ score_result = NoCall
    /\ earlier_result = NoCall
    /\ utcnow = 0

InitCategory ==
    /\ cat_score = None
    /\ cat_result = NoCategory

\* compute_health_score(site_features)
ComputeHealthScore ==
    /\ score_result' = [features |-> site_features,
                        result |-> compute_health_score(site_features, utcnow)]
    /\ UNCHANGED <<site_features, earlier_result, utcnow>>
    /\ UNCHANGED <<catVars, riskVars, extractVars, laterVars>>

\* the caller turns to another SiteFeatures, drawn from F
OtherSiteFeatures(F) ==
    /\ \E sf \in F : site_features' = sf
    /\ UNCHANGED <<score_result, earlier_result, utcnow>>
    /\ UNCHANGED <<catVars, riskVars, extractVars, laterVars>>

\* the caller keeps the latest call while further calls are made
KeepResult ==
    /\ score_result # NoCall
    /\ earlier_result' = score_result
    /\ UNCHANGED <<site_features, score_result, utcnow>>
    /\ UNCHANGED <<catVars, riskVars, extractVars, laterVars>>

\* time passes between calls
Tick ==
    /\ utcnow < MaxClock
    /\ utcnow' = utcnow + 1
    /\ UNCHANGED <<site_features, score_result, earlier_result>>
    /\ UNCHANGED <<catVars, riskVars, extractVars, laterVars>>

\* get_health_category(cat_score)
GetHealthCategory ==
    /\ cat_result = NoCategory
    /\ cat_result' = get_health_category(cat_score)
    /\ UNCHANGED <<cat_score>>
    /\ UNCHANGED <<scoreVars, riskVars, extractVars, laterVars>>

-----------------------------------------------------------------------------
(* models.py: SiteRiskModel *)

\* the scores get_health_category is tried on: every thousandth from -0.1 to
\* 1.1, nan and the infinities
CategoryScores == { Float(x) : x \in -100..1100 } \cup {NaN, PosInf, NegInf}

FEATURE_KEYS == {"ndvi_mean", "ndvi_std", "rainfall_mean", "temp_mean", "soil_index"}

Payload(ndvi_mean, ndvi_std, rainfall_mean, temp_mean, soil_index) ==
    [ndvi_mean |-> ndvi_mean, ndvi_std |-> ndvi_std, rainfall_mean |-> rainfall_mean,
     temp_mean |-> temp_mean, soil_index |-> soil_index]

NoPayload == Payload(None, None, None, None, None)

RiskPayloads ==
    { Payload(a, b, c, d, e) :
        a \in {None, Float(200), Float(800), NaN},
        b \in {None, Float(100)},
        c \in {None, Whole(0), Whole(120), PosInf},
        d \in {None, Whole(10), Whole(50), NegInf},
        e \in {None, Whole(2), Whole(-6)} }

\* what _load_model may find at model_path
ModelFiles == {
    [kind |-> "absent", weights |-> [key \in {} |-> Whole(0)], bias |-> Whole(0),
     version |-> ""],
    [kind |-> "unreadable", weights |-> [key \in {} |-> Whole(0)], bias |-> Whole(0),
     version |-> ""],
    [kind |-> "data", weights |-> [key \in {"ndvi_mean"} |-> Whole(3)],
     bias |-> Whole(-1), version |-> "torchgeo-v1"],
    [kind |-> "data", weights |-> [key \in {"rainfall_mean", "temp_mean"} |->
                                      IF key = "temp_mean" THEN Float(-200) ELSE Float(10)],
     bias |-> Whole(1), version |-> "torchgeo-v1"],
    [kind |-> "data", weights |-> [key \in {"soil_index"} |-> Float(500)],
     bias |-> None, version |-> "torchgeo-v1"],
    [kind |-> "data", weights |-> [key \in {} |-> Whole(0)],
     bias |-> Whole(1), version |-> "torchgeo-v1"] }

NoWeights == [key \in {} |-> Whole(0)]

\* state tells the branch predict takes (LOADED: self.weights is not empty),
\* logged the message _load_model wrote
Unconstructed ==
    [state |-> "UNLOADED", weights |-> NoWeights, bias |-> Whole(0),
     version |-> "site-risk-stub-v1", logged |-> ""]

\* x or 0.0: 0.0 when x is None or zero
OrZero(x) == IF IsNone(x) \/ x = Float(0) THEN Float(0) ELSE x

\* __init__ followed by _load_model on the file found
SiteRiskModel_init(file) ==
    CASE file.kind = "absent" ->
            [Unconstructed EXCEPT !.state = "FALLBACK",
                                  !.logged = "No torchgeo model path provided"]
      [] file.kind = "unreadable" ->
            [Unconstructed EXCEPT !.state = "FALLBACK",
                                  !.logged = "Failed to load model"]
      [] Raised(PyFloat(file.bias)) ->
            \* self.weights is assigned before float(bias) raises
            [Unconstructed EXCEPT !.state = IF file.weights = NoWeights
                                            THEN "FALLBACK" ELSE "LOADED",
                                  !.weights = file.weights,
                                  !.logged = "Failed to load model"]
      [] OTHER ->
            [state |-> IF file.weights = NoWeights THEN "FALLBACK" ELSE "LOADED",
             weights |-> file.weights, bias |-> file.bias, version |-> file.version,
             logged |-> "Loaded model weights"]

\* 1 / (1 + exp(-x)) in thousandths, read at the whole part of x
SigmoidTable == <<0, 1, 2, 7, 18, 47, 119, 269, 500, 731, 881, 953, 982, 993, 998, 999, 1000>>

Sigmoid(x) ==
    CASE x.k = "nan" -> NaN
      [] x.k = "inf" -> IF x.v > 0 THEN Float(1000) ELSE Float(0)
      [] OTHER ->
            LET n == x.v \div 1000
            IN  IF n >= 8 THEN Float(1000)
                ELSE IF n <= -9 THEN Float(0)
                ELSE Float(SigmoidTable[n + 9])

\* the loop over self.weights.items(), keys taken in any order
RECURSIVE WeightedSum(_, _, _, _)
WeightedSum(weights, keys, features, score) ==
    IF keys = {} THEN score
    ELSE LET key == CHOOSE k \in keys : TRUE
             value == PyFloat(OrZero(features[key]))
         IN  WeightedSum(weights, keys \ {key}, features,
                         FAdd(score, FMul(PyFloat(weights[key]), value)))

LoadedScore(m, features) ==
    Sigmoid(WeightedSum(m.weights, DOMAIN m.weights, features, m.bias))

FallbackScore(features) ==
    LET delta_ndvi == IF IsNone(features.ndvi_mean) THEN Float(0)
                      ELSE FSub(Float(500), PyFloat(features.ndvi_mean))
        delta_rain == IF IsNone(features.rainfall_mean) THEN Float(0)
                      ELSE FDiv(PyFloat(features.rainfall_mean), Whole(100))
        delta_temp == IF IsNone(features.temp_mean) THEN Float(0)
                      ELSE FDiv(FSub(PyMin(PyFloat(features.temp_mean), Whole(40)),
                                     Whole(20)),
                                Whole(40))
        base == FAdd(FAdd(FAdd(Float(500), FMul(Float(200), delta_ndvi)),
                          FMul(Float(100), delta_rain)),
                     FMul(Float(100), delta_temp))
    IN  IF features.soil_index # None
        THEN FAdd(base, FMul(Float(100), PyFloat(features.soil_index)))
        ELSE base

predict(m, features) ==
    LET loaded == m.weights # NoWeights
        score == IF loaded THEN LoadedScore(m, features) ELSE FallbackScore(features)
        normalized == PyMax(Float(0), PyMin(Float(1000), score))
    IN  IF Raised(normalized)
        THEN [raised |-> "TypeError", score |-> None, reasoning |-> "",
              model_version |-> ""]
        ELSE [raised |-> "",
              score |-> normalized,
              reasoning |-> IF loaded THEN "Loaded model weights used."
                            ELSE "Fallback heuristic combining NDVI/rain/temp.",
              model_version |-> m.version]

NoPrediction == [raised |-> "", score |-> None, reasoning |-> "", model_version |-> ""]

InitRisk(P) ==
    /\ model = Unconstructed
    /\ risk_features \in P
    /\ risk_result = NoPrediction

\* SiteRiskModel(): the constructor loads the weights once
Construct ==
    /\ model.state = "UNLOADED"
    /\ \E file \in ModelFiles : model' = SiteRiskModel_init(file)
    /\ UNCHANGED <<risk_features, risk_result>>
    /\ UNCHANGED <<scoreVars, catVars, extractVars, laterVars>>

\* SITE_RISK_MODEL.predict(risk_features)
Predict ==
    /\ model.state # "UNLOADED"
    /\ risk_result' = predict(model, risk_features)
    /\ UNCHANGED <<model, risk_features>>
    /\ UNCHANGED <<scoreVars, catVars, extractVars, laterVars>>

-----------------------------------------------------------------------------
(* dates: datetime.strptime(s, "%Y-%m-%d").date() and date subtraction *)

Date(y, m, d) == [y |-> y, m |-> m, d |-> d]

IsLeap(y) == y % 4 = 0 /\ (y % 100 # 0 \/ y % 400 = 0)

DaysInMonth(y, m) ==
    IF m = 2 THEN (IF IsLeap(y) THEN 29 ELSE 28)
    ELSE IF m \in {4, 6, 9, 11} THEN 30 ELSE 31

\* strptime accepts the string: the month and the day exist
ValidDate(dt) == dt.m \in 1..12 /\ dt.d \in 1..DaysInMonth(dt.y, dt.m)

RECURSIVE DaysBeforeMonth(_, _)
DaysBeforeMonth(y, m) ==
    IF m = 1 THEN 0 ELSE DaysBeforeMonth(y, m - 1) + DaysInMonth(y, m - 1)

DaysBeforeYear(y) ==
    (y - 1) * 365 + (y - 1) \div 4 - (y - 1) \div 100 + (y - 1) \div 400

\* date.toordinal()
ToOrdinal(dt) == DaysBeforeYear(dt.y) + DaysBeforeMonth(dt.y, dt.m) + dt.d

\* the last day left out
DaysInPeriod_exclusive(start_date, end_date) == ToOrdinal(end_date) - ToOrdinal(start_date)

\* (end_date_obj - start_date_obj).days + 1
DaysInPeriod(start_date, end_date) == ToOrdinal(end_date) - ToOrdinal(start_date) + 1

-----------------------------------------------------------------------------
(* what the sources give extract_features_for_site *)

PyTuple(items) == [k |-> "tuple", v |-> items]
PyDict(d) == [k |-> "dict", v |-> d]
PyRaise(error) == [k |-> "raise", v |-> error]

\* CHIRPSClient.get_rainfall_for_location: a rainfall that is not zero, or None
CHIRPS_Returns == {None, Float(912500), Whole(120)}

\* NASAPOWERClient.get_temperature_climatology: (mean, min, max) or None; the
\* caller also takes a pair (min, max)
NASA_Returns ==
    {None, PyTuple(<<Whole(20), Whole(15), Whole(25)>>),
     PyTuple(<<Whole(14), Whole(26)>>)}

SoilDict(ph, soc, sand, silt, clay) ==
    PyDict([ph |-> ph, soc |-> soc, sand |-> sand, silt |-> silt, clay |-> clay])

\* SoilGridsClient.get_soil_properties: a dictionary with every key, ph never
\* None, or None
SoilGrids_Returns ==
    {None,
     SoilDict(Float(6200), Whole(31), Whole(40), Whole(25), Whole(35)),
     SoilDict(Whole(6), None, Whole(40), Whole(25), Whole(35))}

NdviStats(ndvi_mean, ndvi_std, collection_used) ==
    PyDict([ndvi_mean |-> ndvi_mean, ndvi_std |-> ndvi_std,
            collection_used |-> collection_used])

\* compute_ndvi_stats raises ValueError on dates that do not parse and
\* otherwise returns the statistics, each of them a number or None
Ndvi_Returns(start_date, end_date) ==
    IF ~ValidDate(start_date) \/ ~ValidDate(end_date)
    THEN {PyRaise("ValueError")}
    ELSE {NdviStats(None, None, "COPERNICUS/S2_SR_HARMONIZED"),
          NdviStats(Float(600), None, "COPERNICUS/S2_SR_HARMONIZED"),
          NdviStats(None, Float(100), "COPERNICUS/S2_SR_HARMONIZED"),
          NdviStats(Float(600), Float(100), "COPERNICUS/S2_SR_HARMONIZED")}

\* maybe_upload_ndvi: None, the identifier of the file, or an exception
Upload_Returns == {"None", "drive-file-1", "raise"}

\* the sites of db["sites"] and the site_id values asked for
Sites == {"site-1", "site-3"}
SiteIds == {"site-1", "site-2", "site-3"}

\* the centroid of a stored site's geometry: site-1 lies in Kenya, site-3
\* north of it
Centroid(site_id) ==
    IF site_id = "site-1" THEN [lat |-> Float(-500), lon |-> Whole(37)]
    ELSE [lat |-> Whole(12), lon |-> Whole(37)]

\* config.py: VALIDATION["kenya_bounds"]
kenya_bounds ==
    [min_lat |-> Whole(-5), max_lat |-> Whole(5),
     min_lon |-> Whole(33), max_lon |-> Whole(42)]

\* data_loader.py: validate_kenya_bounds on a geometry whose bounds are the
\* point (lat, lon)
validate_kenya_bounds(lat, lon) ==
    /\ FLe(kenya_bounds.min_lat, lat) /\ FLe(lat, kenya_bounds.max_lat)
    /\ FLe(kenya_bounds.min_lon, lon) /\ FLe(lon, kenya_bounds.max_lon)

StartDates ==
    {Date(2023, 12, 31), Date(2024, 1, 1), Date(2024, 1, 10), Date(2024, 2, 28),
     Date(2024, 2, 30)}
EndDates ==
    {Date(2024, 1, 1), Date(2024, 1, 10), Date(2024, 3, 1), Date(2024, 13, 1)}

Requests ==
    { [site_id |-> i, start_date |-> a, end_date |-> b] :
        i \in SiteIds, a \in StartDates, b \in EndDates }

-----------------------------------------------------------------------------
(* feature_pipeline.py: extract_features_for_site, statement by statement *)

NoDate == Date(0, 0, 0)

NoBreakdown ==
    [rainfall |-> [source |-> "", value |-> None, available |-> FALSE],
     temperature |-> [source |-> "", tmin |-> None, tmax |-> None, available |-> FALSE],
     soil |-> [source |-> "", properties |-> None, available |-> FALSE],
     ndvi |-> [source |-> "", available |-> FALSE]]

NoDoc ==
    [id |-> "", site_id |-> "", start_date |-> NoDate, end_date |-> NoDate,
     ndvi_mean |-> None, ndvi_std |-> None,
     rainfall_total_mm |-> None, rainfall_mean_mm_per_day |-> None,
     tmin_c |-> None, tmax_c |-> None, solar_radiation |-> None,
     soc |-> None, sand |-> None, clay |-> None, silt |-> None, ph |-> None,
     source_breakdown |-> NoBreakdown, partial |-> FALSE,
     ndvi_meta |-> [collection |-> "", drive_file_id |-> "None"]]

NoFrame ==
    [lat |-> None, lon |-> None,
     is_partial |-> FALSE, rainfall_mm |-> None, temp_tuple |-> None,
     tmin_c |-> None, tmax_c |-> None, soil_props |-> None,
     soc |-> None, sand |-> None, clay |-> None, silt |-> None, ph |-> None,
     ndvi_collection |-> "", ndvi_mean |-> None, ndvi_std |-> None,
     features_doc |-> NoDoc, error |-> ""]

NoReturns ==
    [rainfall |-> None, temperature |-> None, soil |-> None, ndvi |-> None,
     upload |-> "None", invoked |-> << >>]

NoRequest == [site_id |-> "", start_date |-> NoDate, end_date |-> NoDate]

NoSummary ==
    [rainfall_total_mm |-> None, rainfall_mean_mm_per_day |-> None, partial |-> FALSE]

\* the truth value of a Python object
Truthy(x) ==
    CASE x.k = "None" -> FALSE
      [] x.k = "float" -> x.v # 0
      [] x.k = "tuple" -> Len(x.v) > 0
      [] x.k = "dict" -> DOMAIN x.v # {}
      [] OTHER -> TRUE

\* d.get(key, default)
DictGet(d, key, default) == IF key \in DOMAIN d.v THEN d.v[key] ELSE default

\* lines 43-50: the site is looked up and its centroid taken
FindSite(fr, site_id) ==
    IF site_id \in Sites
    THEN [fr EXCEPT !.lat = Centroid(site_id).lat, !.lon = Centroid(site_id).lon]
    ELSE [fr EXCEPT !.error = "ValueError"]

\* a missing rainfall that ends the call
AfterRainfall_blocking(fr, rainfall_mm) ==
    IF IsNone(rainfall_mm)
    THEN [fr EXCEPT !.error = "ValueError"]
    ELSE [fr EXCEPT !.rainfall_mm = rainfall_mm]

\* lines 58-61
AfterRainfall(fr, rainfall_mm) ==
    IF IsNone(rainfall_mm)
    THEN [fr EXCEPT !.is_partial = TRUE, !.rainfall_mm = Float(0)]
    ELSE [fr EXCEPT !.rainfall_mm = rainfall_mm]

\* lines 63-70
AfterTemperature(fr, temp_tuple) ==
    IF Truthy(temp_tuple) /\ Len(temp_tuple.v) = 3
    THEN [fr EXCEPT !.temp_tuple = temp_tuple,
                    !.tmin_c = temp_tuple.v[2], !.tmax_c = temp_tuple.v[3]]
    ELSE IF Truthy(temp_tuple) /\ Len(temp_tuple.v) = 2
    THEN [fr EXCEPT !.temp_tuple = temp_tuple,
                    !.tmin_c = temp_tuple.v[1], !.tmax_c = temp_tuple.v[2]]
    ELSE [fr EXCEPT !.temp_tuple = temp_tuple, !.is_partial = TRUE,
                    !.tmin_c = Float(0), !.tmax_c = Float(0)]

\* lines 72-81
AfterSoil(fr, soil_props) ==
    IF Truthy(soil_props)
    THEN [fr EXCEPT !.soil_props = soil_props,
                    !.soc = DictGet(soil_props, "soc", Float(0)),
                    !.sand = DictGet(soil_props, "sand", Float(0)),
                    !.clay = DictGet(soil_props, "clay", Float(0)),
                    !.silt = DictGet(soil_props, "silt", Float(0)),
                    !.ph = DictGet(soil_props, "ph", Float(0))]
    ELSE [fr EXCEPT !.soil_props = soil_props, !.is_partial = TRUE,
                    !.soc = Float(0), !.sand = Float(0), !.clay = Float(0),
                    !.silt = Float(0), !.ph = Float(0)]

\* is_partial assigned from the NDVI statistics alone
NdviPartial_overwritten(is_partial, ndvi_mean, ndvi_std) ==
    IF IsNone(ndvi_mean) \/ IsNone(ndvi_std) THEN TRUE ELSE FALSE

\* lines 92-95: is_partial once both statistics are read
NdviPartial(is_partial, ndvi_mean, ndvi_std) ==
    IF IsNone(ndvi_mean) \/ IsNone(ndvi_std) THEN TRUE ELSE (is_partial \/ FALSE)

\* lines 96-105: the handler of the try around compute_ndvi_stats
NdviExcept(fr) ==
    [fr EXCEPT !.ndvi_mean = None, !.ndvi_std = None,
               !.ndvi_collection = "unknown", !.is_partial = TRUE]

\* lines 83-105
AfterNdvi(fr, outcome) ==
    IF outcome.k = "raise"
    THEN NdviExcept(fr)
    ELSE [fr EXCEPT !.ndvi_mean = outcome.v.ndvi_mean,
                    !.ndvi_std = outcome.v.ndvi_std,
                    !.ndvi_collection = outcome.v.collection_used,
                    !.is_partial = NdviPartial(fr.is_partial, outcome.v.ndvi_mean,
                                               outcome.v.ndvi_std)]

\* lines 107-112, with line 147 done: the ndvi entry is rewritten after the
\* document holds the dictionary
SourceBreakdown(fr) ==
    [rainfall |-> [source |-> "CHIRPS", value |-> fr.rainfall_mm,
                   available |-> FGt(fr.rainfall_mm, Float(0))],
     temperature |-> [source |-> "NASA POWER", tmin |-> fr.tmin_c, tmax |-> fr.tmax_c,
                      available |-> ~IsNone(fr.temp_tuple)],
     soil |-> [source |-> "SoilGrids", properties |-> fr.soil_props,
               available |-> ~IsNone(fr.soil_props)],
     ndvi |-> [source |-> "Sentinel-2", available |-> ~IsNone(fr.ndvi_mean)]]

\* line 118
RainfallMeanPerDay(rainfall_mm) ==
    IF Truthy(rainfall_mm) THEN FDiv(rainfall_mm, Whole(365)) ELSE Float(0)

\* lines 114-147: the document, or the ValueError of strptime
AfterAssemble(fr, req) ==
    IF ~ValidDate(req.start_date) \/ ~ValidDate(req.end_date)
    THEN [fr EXCEPT !.error = "ValueError"]
    ELSE
      LET days_in_period == DaysInPeriod(req.start_date, req.end_date)
          rainfall_mean_mm_per_day == RainfallMeanPerDay(fr.rainfall_mm)
          rainfall_total_mm == FMul(rainfall_mean_mm_per_day, Whole(days_in_period))
      IN  [fr EXCEPT !.features_doc =
              [id |-> "features-1",
               site_id |-> req.site_id,
               start_date |-> req.start_date, end_date |-> req.end_date,
               ndvi_mean |-> fr.ndvi_mean, ndvi_std |-> fr.ndvi_std,
               rainfall_total_mm |-> rainfall_total_mm,
               rainfall_mean_mm_per_day |-> rainfall_mean_mm_per_day,
               tmin_c |-> fr.tmin_c, tmax_c |-> fr.tmax_c,
               solar_radiation |-> None,
               soc |-> fr.soc, sand |-> fr.sand, clay |-> fr.clay,
               silt |-> fr.silt, ph |-> fr.ph,
               source_breakdown |-> SourceBreakdown(fr),
               partial |-> fr.is_partial,
               ndvi_meta |-> [collection |-> fr.ndvi_collection,
                              drive_file_id |-> "None"]]]

\* the upload called outside a try
AfterUpload_uncaught(fr, outcome) ==
    IF outcome = "raise" THEN [fr EXCEPT !.error = "Exception"]
    ELSE IF outcome = "None" THEN fr
    ELSE [fr EXCEPT !.features_doc.ndvi_meta.drive_file_id = outcome]

\* lines 154-161: an upload that raised leaves drive_file_id None
AfterUpload(fr, outcome) ==
    IF outcome \in {"None", "raise"} THEN fr
    ELSE [fr EXCEPT !.features_doc.ndvi_meta.drive_file_id = outcome]

-----------------------------------------------------------------------------
(* rainfall_service.py: fetch_rainfall_summary *)

fetch_rainfall_summary(start_date, end_date) ==
    IF ~ValidDate(start_date) \/ ~ValidDate(end_date)
    THEN [rainfall_total_mm |-> None, rainfall_mean_mm_per_day |-> None,
          partial |-> TRUE]
    ELSE LET days == (ToOrdinal(end_date) - ToOrdinal(start_date)) + 1
             daily_estimate == Float(2500)
         IN  [rainfall_total_mm |-> FMul(daily_estimate, Whole(days)),
              rainfall_mean_mm_per_day |-> daily_estimate,
              partial |-> TRUE]

-----------------------------------------------------------------------------
(* the feature aggregator as a state machine *)

InitExtract ==
    /\ pc = "idle"
    /\ request = NoRequest
    /\ frame = NoFrame
    /\ source_returns = NoReturns
    /\ site_features_db = << >>
    /\ summary = NoSummary

Invoke(source, value) ==
    [source_returns EXCEPT ![source] = value, !.invoked = Append(@, source)]

\* an exception nothing catches ends the call; otherwise the next statement runs
Continue(fr, next_pc) == IF fr.error = "" THEN next_pc ELSE "raised"

\* lines 43-56: the site is looked up; an unknown site raises ValueError
ExtractBegin ==
    /\ pc = "idle"
    /\ \E req \in Requests :
          /\ request' = req
          /\ frame' = FindSite(NoFrame, req.site_id)
    /\ pc' = Continue(frame', "rainfall")
    /\ UNCHANGED <<source_returns, site_features_db, summary>>
    /\ UNCHANGED <<scoreVars, catVars, riskVars, laterVars>>

FetchRainfall ==
    /\ pc = "rainfall"
    /\ \E rainfall_mm \in CHIRPS_Returns :
          /\ frame' = AfterRainfall(frame, rainfall_mm)
          /\ source_returns' = Invoke("rainfall", rainfall_mm)
    /\ pc' = Continue(frame', "temperature")
    /\ UNCHANGED <<request, site_features_db, summary>>
    /\ UNCHANGED <<scoreVars, catVars, riskVars, laterVars>>

FetchTemperature ==
    /\ pc = "temperature"
    /\ \E temp_tuple \in NASA_Returns :
          /\ frame' = AfterTemperature(frame, temp_tuple)
          /\ source_returns' = Invoke("temperature", temp_tuple)
    /\ pc' = Continue(frame', "soil")
    /\ UNCHANGED <<request, site_features_db, summary>>
    /\ UNCHANGED <<scoreVars, catVars, riskVars, laterVars>>

FetchSoil ==
    /\ pc = "soil"
    /\ \E soil_props \in SoilGrids_Returns :
          /\ frame' = AfterSoil(frame, soil_props)
          /\ source_returns' = Invoke("soil", soil_props)
    /\ pc' = Continue(frame', "ndvi")
    /\ UNCHANGED <<request, site_features_db, summary>>
    /\ UNCHANGED <<scoreVars, catVars, riskVars, laterVars>>

ComputeNdvi ==
    /\ pc = "ndvi"
    /\ \E outcome \in Ndvi_Returns(request.start_date, request.end_date) :
          /\ frame' = AfterNdvi(frame, outcome)
          /\ source_returns' = Invoke("ndvi", outcome)
    /\ pc' = Continue(frame', "assemble")
    /\ UNCHANGED <<request, site_features_db, summary>>
    /\ UNCHANGED <<scoreVars, catVars, riskVars, laterVars>>

Assemble ==
    /\ pc = "assemble"
    /\ frame' = AfterAssemble(frame, request)
    /\ pc' = Continue(frame', "upload")
    /\ UNCHANGED <<request, source_returns, site_features_db, summary>>
    /\ UNCHANGED <<scoreVars, catVars, riskVars, laterVars>>

UploadNdvi ==
    /\ pc = "upload"
    /\ \E outcome \in Upload_Returns :
          /\ frame' = AfterUpload(frame, outcome)
          /\ source_returns' = Invoke("upload", outcome)
    /\ pc' = Continue(frame', "insert")
    /\ UNCHANGED <<request, site_features_db, summary>>
    /\ UNCHANGED <<scoreVars, catVars, riskVars, laterVars>>

\* lines 163-164: insert_one, then the document is returned
InsertAndReturn ==
    /\ pc = "insert"
    /\ site_features_db' = Append(site_features_db, frame.features_doc)
    /\ pc' = "returned"
    /\ UNCHANGED <<request, frame, source_returns, summary>>
    /\ UNCHANGED <<scoreVars, catVars, riskVars, laterVars>>

\* a call of fetch_rainfall_summary on the dates of some request
FetchRainfallSummary ==
    /\ pc = "idle"
    /\ \E req \in Requests :
          /\ request' = req
          /\ summary' = fetch_rainfall_summary(req.start_date, req.end_date)
    /\ pc' = "summarized"
    /\ UNCHANGED <<frame, source_returns, site_features_db>>
    /\ UNCHANGED <<scoreVars, catVars, riskVars, laterVars>>

Next ==
    \/ ExtractBegin
    \/ FetchRainfall
    \/ FetchTemperature
    \/ FetchSoil
    \/ ComputeNdvi
    \/ Assemble
    \/ UploadNdvi
    \/ InsertAndReturn
    \/ FetchRainfallSummary

-----------------------------------------------------------------------------
(* environmental_api_client.py: CacheManager *)

\* CacheManager(ttl_hours = ...): the time-to-live of this instance
ttl_hours == 2

\* the last hour the clock reaches
MaxCacheClock == 5

CacheKeys == {"chirps_-0.5000_37.0000_clim", "soilgrids_-0.5000_37.0000"}

CacheValues ==
    {PyDict([rainfall_mm |-> Whole(120)]), PyDict([rainfall_mm |-> Float(912500)])}

\* no file {key}.json in the cache directory
NoFile == [exists |-> FALSE, timestamp |-> 0, data |-> None]

\* an entry dropped already at the age of the time-to-live
CacheManager_get_early(files, key, now) ==
    LET cache_data == files[key]
        cache_age == now - cache_data.timestamp
    IN  IF ~cache_data.exists THEN None
        ELSE IF cache_age >= ttl_hours THEN None
        ELSE cache_data.data

\* lines 52-85: get on the files found, at the hour now
CacheManager_get(files, key, now) ==
    LET cache_data == files[key]
        cache_age == now - cache_data.timestamp
    IN  IF ~cache_data.exists THEN None
        ELSE IF cache_age > ttl_hours THEN None
        ELSE cache_data.data

\* lines 87-108: set writes the file anew
CacheManager_set(files, key, value, now) ==
    [files EXCEPT ![key] = [exists |-> TRUE, timestamp |-> now, data |-> value]]

NoGet == [key |-> "", at |-> 0, value |-> None]

InitCache ==
    /\ cache_files = [key \in CacheKeys |-> NoFile]
    /\ cache_clock = 0
    /\ cache_got = NoGet
    /\ cache_last_set = [key \in CacheKeys |-> NoFile]

CacheSet ==
    /\ \E key \in CacheKeys, value \in CacheValues :
          /\ cache_files' = CacheManager_set(cache_files, key, value, cache_clock)
          /\ cache_last_set' =
                [cache_last_set EXCEPT
                    ![key] = [exists |-> TRUE, timestamp |-> cache_clock, data |-> value]]
    /\ UNCHANGED <<cache_clock, cache_got>>
    /\ UNCHANGED <<scoreVars, catVars, riskVars, extractVars, httpVars, predictionVars, enrichVars, lastVars>>

CacheGet ==
    /\ \E key \in CacheKeys :
          cache_got' = [key |-> key, at |-> cache_clock,
                        value |-> CacheManager_get(cache_files, key, cache_clock)]
    /\ UNCHANGED <<cache_files, cache_clock, cache_last_set>>
    /\ UNCHANGED <<scoreVars, catVars, riskVars, extractVars, httpVars, predictionVars, enrichVars, lastVars>>

\* an hour passes
CacheTick ==
    /\ cache_clock < MaxCacheClock
    /\ cache_clock' = cache_clock + 1
    /\ UNCHANGED <<cache_files, cache_got, cache_last_set>>
    /\ UNCHANGED <<scoreVars, catVars, riskVars, extractVars, httpVars, predictionVars, enrichVars, lastVars>>

-----------------------------------------------------------------------------
(* environmental_api_client.py: HTTPClient *)

\* config.py: REQUEST_CONFIG; the multiplier 2.0 and the delays are whole
\* seconds
REQUEST_CONFIG ==
    [timeout_seconds |-> 30, retry_attempts |-> 3, retry_delay_seconds |-> 1,
     backoff_multiplier |-> 2, ssl_verify |-> TRUE]

\* the retry_attempts argument of HTTPClient(...): 0 stands for None
RetryArguments == {0, 1, 2}

\* what requests.get, raise_for_status and response.json() make of a request
Outcomes ==
    {"json", "empty body", "unparsable body", "Timeout", "ConnectionError",
     "HTTP 429", "HTTP 404", "HTTP 500", "Exception"}

\* the body the server gives the request of this attempt, parsed
Payload_of(attempt) == PyDict([served |-> attempt])
EmptyDict == PyDict([key \in {} |-> None])

Requested(outcome) == [ev |-> "request", outcome |-> outcome, secs |-> 0]
Slept(secs) == [ev |-> "sleep", outcome |-> "", secs |-> secs]

\* lines 118-129
HTTPClient_init(retry_attempts) ==
    [pc |-> "idle",
     retry_attempts |-> IF retry_attempts = 0 THEN REQUEST_CONFIG.retry_attempts
                        ELSE retry_attempts,
     retry_delay |-> REQUEST_CONFIG.retry_delay_seconds,
     backoff_multiplier |-> REQUEST_CONFIG.backoff_multiplier,
     attempt |-> 0, delay |-> 0, result |-> None, log |-> << >>]

\* return value
Return(h, value) == [h EXCEPT !.pc = "returned", !.result = value]

\* the delay never multiplied
Backoff_constant(h) == [h EXCEPT !.log = Append(@, Slept(h.delay))]

\* time.sleep(delay); delay *= self.backoff_multiplier
Backoff(h) ==
    [h EXCEPT !.log = Append(@, Slept(h.delay)),
              !.delay = h.delay * h.backoff_multiplier]

\* lines 158-168: the handlers of Timeout and of ConnectionError
OnTransient(h) == IF h.attempt < h.retry_attempts - 1 THEN Backoff(h) ELSE h

\* every HTTP error status taken for a rate limit
OnHTTPError_retrying(h, status_code) == Backoff(h)

\* lines 170-177: the handler of HTTPError
OnHTTPError(h, status_code) ==
    IF status_code = "HTTP 429" THEN Backoff(h) ELSE Return(h, None)

\* no handler for the other exceptions
OnException_escaping(h) == [h EXCEPT !.pc = "raised"]

\* lines 179-181: the handler of every other exception
OnException(h) == Return(h, None)

\* lines 146-181: the body of the loop, the request having ended in outcome
TryRequest(h, outcome) ==
    LET asked == [h EXCEPT !.log = Append(@, Requested(outcome))]
    IN  CASE outcome = "json" -> Return(asked, Payload_of(h.attempt))
          [] outcome = "empty body" -> Return(asked, EmptyDict)
          [] outcome \in {"Timeout", "ConnectionError"} -> OnTransient(asked)
          [] outcome \in {"HTTP 429", "HTTP 404", "HTTP 500"} -> OnHTTPError(asked, outcome)
          [] OTHER -> OnException(asked)

\* line 145: the next attempt of range(self.retry_attempts), or lines 183-184
NextAttempt(h) ==
    IF h.pc # "request" THEN h
    ELSE IF h.attempt + 1 < h.retry_attempts THEN [h EXCEPT !.attempt = @ + 1]
    ELSE Return(h, None)

InitHttp(arguments) == \E retry_attempts \in arguments : http = HTTPClient_init(retry_attempts)

\* line 143: get is called
HttpGet ==
    /\ http.pc = "idle"
    /\ http' = [http EXCEPT !.pc = "request", !.delay = http.retry_delay]
    /\ UNCHANGED <<scoreVars, catVars, riskVars, extractVars, cacheVars, predictionVars, enrichVars, lastVars>>

\* one turn of the loop
HttpAttempt ==
    /\ http.pc = "request"
    /\ \E outcome \in Outcomes : http' = NextAttempt(TryRequest(http, outcome))
    /\ UNCHANGED <<scoreVars, catVars, riskVars, extractVars, cacheVars, predictionVars, enrichVars, lastVars>>

-----------------------------------------------------------------------------
(* model.py: create_prediction_for_site_features *)

\* the most predictions a behaviour creates
MaxPredictions == 3

\* a dictionary without one of its keys
Without(d, key) == [f \in DOMAIN d \ {key} |-> d[f]]

\* Feature Records of db["site_features"]: a complete one, one marked
\* partial, and one stored without a partial field
StoredFeatureRecords == <<
    [NoDoc EXCEPT !.id = "features-1", !.site_id = "site-1",
                  !.ndvi_mean = Float(600), !.ndvi_std = Float(100),
                  !.rainfall_mean_mm_per_day = Float(2500),
                  !.rainfall_total_mm = Whole(25),
                  !.tmin_c = Whole(15), !.tmax_c = Whole(25),
                  !.soc = Whole(2), !.ph = Float(6200)],
    [NoDoc EXCEPT !.id = "features-2", !.site_id = "site-1",
                  !.rainfall_mean_mm_per_day = Float(0),
                  !.rainfall_total_mm = Float(0),
                  !.tmin_c = Float(0), !.tmax_c = Float(0),
                  !.soc = Float(0), !.ph = Float(0),
                  !.partial = TRUE],
    Without([NoDoc EXCEPT !.id = "features-3", !.site_id = "site-3",
                          !.ndvi_mean = Float(200),
                          !.tmin_c = Whole(10)],
            "partial") >>

\* the flag not copied from the record
PartialOf_dropped(site_features_doc) == FALSE

\* line 94: site_features_doc.get("partial", False)
PartialOf(site_features_doc) ==
    IF "partial" \in DOMAIN site_features_doc THEN site_features_doc.partial ELSE FALSE

\* lines 62-80
FeaturePayload(site_features_doc) ==
    LET mean == site_features_doc.rainfall_mean_mm_per_day
        rainfall_mm == IF ~IsNone(mean) THEN FMul(mean, Whole(365)) ELSE None
        tmin == site_features_doc.tmin_c
        tmax == site_features_doc.tmax_c
        temp_mean_c == IF ~IsNone(tmin) /\ ~IsNone(tmax)
                       THEN FDiv(FAdd(tmin, tmax), Whole(2)) ELSE None
    IN  Payload(site_features_doc.ndvi_mean, site_features_doc.ndvi_std,
                rainfall_mm, temp_mean_c, site_features_doc.soc)

\* lines 82-101: the prediction document, uuid being the identifier drawn
create_prediction_for_site_features(site_features_doc, risk_model, uuid) ==
    LET feature_payload == FeaturePayload(site_features_doc)
        model_result == predict(risk_model, feature_payload)
    IN  [id |-> uuid,
         site_id |-> site_features_doc.site_id,
         features_id |-> site_features_doc.id,
         score |-> model_result.score,
         model_version |-> model_result.model_version,
         partial |-> PartialOf(site_features_doc),
         prediction_metadata |-> [explanation |-> model_result.reasoning,
                                  inputs |-> feature_payload]]

InitPredictions ==
    /\ site_predictions_db = << >>
    /\ prediction_calls = << >>

\* the aggregator idle, db["site_features"] holding the stored records
InitStored ==
    /\ pc = "idle"
    /\ request = NoRequest
    /\ frame = NoFrame
    /\ source_returns = NoReturns
    /\ site_features_db = StoredFeatureRecords
    /\ summary = NoSummary

\* create_prediction_for_site_features(db, site_features_doc) on a stored
\* record; line 103 inserts the document
CreatePrediction ==
    /\ model.state # "UNLOADED"
    /\ Len(site_predictions_db) < MaxPredictions
    /\ \E i \in 1..Len(site_features_db) :
          /\ site_predictions_db' =
                Append(site_predictions_db,
                       create_prediction_for_site_features(
                           site_features_db[i], model, Len(site_predictions_db) + 1))
          /\ prediction_calls' = Append(prediction_calls, site_features_db[i])
    /\ UNCHANGED <<scoreVars, catVars, riskVars, extractVars, cacheVars, httpVars, enrichVars, lastVars>>

-----------------------------------------------------------------------------
(* enrich_all_water_towers (tower_enrichment_service.py) *)

TowerIds == {"tower-1", "tower-2", "tower-3"}
MaxEnrichCalls == 2

\* a tower document: its id, whether _get_centroid_latlon finds a centroid
\* for it, and how many times update_one has set its metadata
Tower(id, located) == [id |-> id, located |-> located, updates |-> 0]

\* the orders in which a set of ids can stand in the collection
RECURSIVE Orders(_)
Orders(S) ==
    IF S = {} THEN {<< >>}
    ELSE UNION {{<<x>> \o o : o \in Orders(S \ {x})} : x \in S}

\* the collections db["water_towers"] can hold
TowerCollections ==
    UNION {{[i \in 1..Len(o) |-> Tower(o[i], located[o[i]])] :
                located \in [TowerIds -> BOOLEAN]} :
           o \in UNION {Orders(S) : S \in SUBSET TowerIds}}

Ids(docs) == [i \in 1..Len(docs) |-> docs[i].id]

NoTower == [id |-> "", located |-> FALSE, updates |-> 0]

\* no call yet
NoEnrichAll ==
    [pc |-> "idle", calls |-> 0, cursor |-> << >>, position |-> 0,
     tower |-> NoTower, tower_doc |-> NoTower, updated_docs |-> << >>,
     started |-> << >>, ended |-> << >>, failed |-> << >>, response |-> << >>]

\* db["water_towers"].find_one({"id": water_tower_id}); NoTower stands for None
find_one(db, water_tower_id) ==
    IF \E i \in 1..Len(db) : db[i].id = water_tower_id
    THEN db[CHOOSE i \in 1..Len(db) : db[i].id = water_tower_id]
    ELSE NoTower

\* db["water_towers"].update_one({"id": water_tower_id}, {"$set": ...})
update_one(db, water_tower_id) ==
    [i \in 1..Len(db) |->
        IF db[i].id = water_tower_id
        THEN [db[i] EXCEPT !.updates = @ + 1]
        ELSE db[i]]

\* lines 190-191: updated_docs = [] and cursor = db["water_towers"].find()
StartEnrichAll(e, db) ==
    [e EXCEPT !.pc = "loop", !.calls = @ + 1, !.cursor = db, !.position = 0,
              !.tower = NoTower, !.tower_doc = NoTower, !.updated_docs = << >>,
              !.started = << >>, !.ended = << >>, !.failed = << >>,
              !.response = << >>]

\* lines 192-199: the loop takes the next tower of the cursor and awaits
\* enrich_water_tower for it
NextTower(e) ==
    [e EXCEPT !.pc = "lookup", !.position = @ + 1,
              !.tower = e.cursor[e.position + 1],
              !.started = Append(@, e.cursor[e.position + 1].id)]

\* an except clause that lets the exception leave the loop
OnEnrichmentException_escaping(e) ==
    [e EXCEPT !.pc = "raised",
              !.ended = Append(@, e.tower.id),
              !.failed = Append(@, e.tower.id)]

\* lines 202-203: the exception of one tower is logged and the loop goes on
OnEnrichmentException(e) ==
    [e EXCEPT !.pc = "loop",
              !.ended = Append(@, e.tower.id),
              !.failed = Append(@, e.tower.id)]

\* enrich_water_tower, lines 68-75: the tower is read and its centroid taken;
\* a ValueError when there is no tower or no centroid
LookupTower(e, db) ==
    IF find_one(db, e.tower.id) = NoTower \/ ~find_one(db, e.tower.id).located
    THEN OnEnrichmentException(e)
    ELSE [e EXCEPT !.pc = "persist", !.tower_doc = find_one(db, e.tower.id)]

\* enrich_water_tower, line 177, and lines 200-201: the tower is read again
\* and, if there is one, appended to updated_docs
AppendUpdated(e, db) ==
    [e EXCEPT !.pc = "loop",
              !.ended = Append(@, e.tower.id),
              !.updated_docs =
                  IF find_one(db, e.tower.id) = NoTower THEN @
                  ELSE Append(@, find_one(db, e.tower.id))]

\* line 204, and water_towers.py line 89: the updated documents are answered
ReturnUpdated(e) == [e EXCEPT !.pc = "returned", !.response = e.updated_docs]

InitEnrich(collections) ==
    /\ water_towers_db \in collections
    /\ enrich_all = NoEnrichAll

\* POST /water-towers/enrich-all
EnrichAllCall ==
    /\ enrich_all.pc \in {"idle", "returned"}
    /\ enrich_all.calls < MaxEnrichCalls
    /\ enrich_all' = StartEnrichAll(enrich_all, water_towers_db)
    /\ UNCHANGED <<scoreVars, catVars, riskVars, extractVars, cacheVars, httpVars,
                   predictionVars, water_towers_db, lastVars>>

EnrichNextTower ==
    /\ enrich_all.pc = "loop"
    /\ enrich_all.position < Len(enrich_all.cursor)
    /\ enrich_all' = NextTower(enrich_all)
    /\ UNCHANGED <<scoreVars, catVars, riskVars, extractVars, cacheVars, httpVars,
                   predictionVars, water_towers_db, lastVars>>

EnrichLookup ==
    /\ enrich_all.pc = "lookup"
    /\ enrich_all' = LookupTower(enrich_all, water_towers_db)
    /\ UNCHANGED <<scoreVars, catVars, riskVars, extractVars, cacheVars, httpVars,
                   predictionVars, water_towers_db, lastVars>>

\* enrich_water_tower, lines 77-177: the summaries are fetched and written
\* with update_one, which the database either carries out or fails
EnrichPersist ==
    /\ enrich_all.pc = "persist"
    /\ \E carried_out \in BOOLEAN :
          IF carried_out
          THEN /\ water_towers_db' = update_one(water_towers_db, enrich_all.tower.id)
               /\ enrich_all' = AppendUpdated(enrich_all, water_towers_db')
          ELSE /\ enrich_all' = OnEnrichmentException(enrich_all)
               /\ UNCHANGED water_towers_db
    /\ UNCHANGED <<scoreVars, catVars, riskVars, extractVars, cacheVars, httpVars,
                   predictionVars, lastVars>>

EnrichAllReturn ==
    /\ enrich_all.pc = "loop"
    /\ enrich_all.position = Len(enrich_all.cursor)
    /\ enrich_all' = ReturnUpdated(enrich_all)
    /\ UNCHANGED <<scoreVars, catVars, riskVars, extractVars, cacheVars, httpVars,
                   predictionVars, water_towers_db, lastVars>>

-----------------------------------------------------------------------------
(* CacheManager shared by several clients (environmental_api_client.py) *)

\* the processes and threads that share the cache directory
CacheClients == {"client-1", "client-2"}

\* the operations one client carries out
MaxCacheOps == 2

\* the values written, and the length of json.dump's text for each
SharedValues == {"rainfall 120.0", "rainfall 1187.25"}
SerializedLen(value) == IF value = "rainfall 120.0" THEN 2 ELSE 3

\* json.dump({"timestamp": ..., "data": value}): the text, piece by piece
Serialized(value) == [i \in 1..SerializedLen(value) |-> [of |-> value, at |-> i]]

\* no file {key}.json yet
NoCacheFile == [exists |-> FALSE, content |-> << >>]

\* line 104: open(cache_path, "w") creates the file or truncates it
OpenForWriting(file) == [exists |-> TRUE, content |-> << >>]

\* line 105 and the end of the with block: the text is written from the
\* start of the file, over what is there, and the rest of the file stays
WriteFromStart(file, text) ==
    [file EXCEPT !.content =
        [i \in 1..(IF Len(text) > Len(file.content) THEN Len(text) ELSE Len(file.content)) |->
            IF i <= Len(text) THEN text[i] ELSE file.content[i]]]

\* lines 62-85 on a file within its time-to-live: json.load raises on a
\* text that is not one whole document, and get then returns None
ReadShared(file) ==
    IF ~file.exists THEN "None"
    ELSE IF \E value \in SharedValues : file.content = Serialized(value)
    THEN (CHOOSE value \in SharedValues : file.content = Serialized(value))
    ELSE "None"

NoCacheClient == [pc |-> "idle", op |-> "", key |-> "", value |-> "", got |-> "None", done |-> 0]

InitShared ==
    /\ cache_dir = [key \in CacheKeys |-> NoCacheFile]
    /\ cache_clients = [c \in CacheClients |-> NoCacheClient]
    /\ cache_sets = [key \in CacheKeys |-> [begun |-> {}, completed |-> {}]]

\* set(key, value) up to and with line 104
SharedSetOpen(c) ==
    /\ cache_clients[c].pc = "idle"
    /\ cache_clients[c].done < MaxCacheOps
    /\ \E key \in CacheKeys, value \in SharedValues :
          /\ cache_dir' = [cache_dir EXCEPT ![key] = OpenForWriting(@)]
          /\ cache_clients' = [cache_clients EXCEPT ![c] =
                [@ EXCEPT !.pc = "opened", !.op = "set", !.key = key, !.value = value]]
          /\ cache_sets' = [cache_sets EXCEPT ![key].begun = @ \cup {value}]
    /\ UNCHANGED <<scoreVars, catVars, riskVars, extractVars, cacheVars, httpVars,
                   predictionVars, enrichVars, siteVars, clientVars>>

\* set(key, value) from line 105 to its end
SharedSetWrite(c) ==
    /\ cache_clients[c].pc = "opened"
    /\ cache_dir' = [cache_dir EXCEPT ![cache_clients[c].key] =
                        WriteFromStart(@, Serialized(cache_clients[c].value))]
    /\ cache_clients' = [cache_clients EXCEPT ![c] =
            [@ EXCEPT !.pc = "idle", !.done = @ + 1]]
    /\ cache_sets' = [cache_sets EXCEPT ![cache_clients[c].key].completed =
                        @ \cup {cache_clients[c].value}]
    /\ UNCHANGED <<scoreVars, catVars, riskVars, extractVars, cacheVars, httpVars,
                   predictionVars, enrichVars, siteVars, clientVars>>

\* get(key)
SharedGet(c) ==
    /\ cache_clients[c].pc = "idle"
    /\ cache_clients[c].done < MaxCacheOps
    /\ \E key \in CacheKeys :
          cache_clients' = [cache_clients EXCEPT ![c] =
                [@ EXCEPT !.op = "get", !.key = key, !.value = "",
                          !.got = ReadShared(cache_dir[key]), !.done = @ + 1]]
    /\ UNCHANGED <<cache_dir, cache_sets>>
    /\ UNCHANGED <<scoreVars, catVars, riskVars, extractVars, cacheVars, httpVars,
                   predictionVars, enrichVars, siteVars, clientVars>>

-----------------------------------------------------------------------------
(* api/sites.py: create_site, get_site, delete_site *)

\* the identifiers uuid4 draws, in the order drawn, and one it never draws
SiteUuids == 1..3
NeverDrawn == 9

\* the requests one behaviour makes
MaxSiteRequests == 6

SiteNames == {"Test Site", "Mau Forest"}

NoBody == [id |-> 0, name |-> ""]

\* line 74: find_one({"id": str(site_id)}); NoBody stands for None
find_site(db, site_id) ==
    IF \E i \in 1..Len(db) : db[i].id = site_id
    THEN db[CHOOSE i \in 1..Len(db) : db[i].id = site_id]
    ELSE NoBody

\* lines 52-65: the document is inserted and answered with 201
create_site(db, site_id, name) ==
    [db |-> Append(db, [id |-> site_id, name |-> name]),
     status |-> 201, body |-> [id |-> site_id, name |-> name]]

\* lines 74-79
get_site(db, site_id) ==
    IF find_site(db, site_id) = NoBody
    THEN [db |-> db, status |-> 404, body |-> NoBody]
    ELSE [db |-> db, status |-> 200, body |-> find_site(db, site_id)]

\* a delete that empties the collection
delete_site_all(db, site_id) ==
    IF find_site(db, site_id) = NoBody
    THEN [db |-> db, status |-> 404, body |-> NoBody]
    ELSE [db |-> << >>, status |-> 200, body |-> [id |-> site_id, name |-> ""]]

\* lines 88-93: delete_one({"id": str(site_id)}), 404 when nothing was deleted
delete_site(db, site_id) ==
    IF find_site(db, site_id) = NoBody
    THEN [db |-> db, status |-> 404, body |-> NoBody]
    ELSE [db |-> SelectSeq(db, LAMBDA doc : doc.id # site_id),
          status |-> 200, body |-> [id |-> site_id, name |-> ""]]

NoSiteRequest == [serial |-> 0, op |-> "", id |-> 0, status |-> 0, body |-> NoBody]

Answered(op, site_id, answer) ==
    [serial |-> sites_api.serial + 1, op |-> op, id |-> site_id,
     status |-> answer.status, body |-> answer.body]

InitSites ==
    /\ sites_db = << >>
    /\ sites_api = NoSiteRequest
    /\ sites_history = [created |-> [u \in SiteUuids |-> ""], deleted |-> {}]

\* POST /api/sites: uuid4 draws the next identifier
CreateSite ==
    /\ sites_api.serial < MaxSiteRequests
    /\ \E site_id \in SiteUuids, name \in SiteNames :
          /\ sites_history.created[site_id] = ""
          /\ \A u \in SiteUuids : u < site_id => sites_history.created[u] # ""
          /\ sites_db' = create_site(sites_db, site_id, name).db
          /\ sites_api' = Answered("create", site_id, create_site(sites_db, site_id, name))
          /\ sites_history' = [sites_history EXCEPT !.created[site_id] = name]
    /\ UNCHANGED <<scoreVars, catVars, riskVars, extractVars, cacheVars, httpVars,
                   predictionVars, enrichVars, sharedVars, clientVars>>

\* GET /api/sites/{site_id}
GetSite ==
    /\ sites_api.serial < MaxSiteRequests
    /\ \E site_id \in SiteUuids \cup {NeverDrawn} :
          sites_api' = Answered("get", site_id, get_site(sites_db, site_id))
    /\ UNCHANGED <<sites_db, sites_history>>
    /\ UNCHANGED <<scoreVars, catVars, riskVars, extractVars, cacheVars, httpVars,
                   predictionVars, enrichVars, sharedVars, clientVars>>

\* DELETE /api/sites/{site_id}
DeleteSite ==
    /\ sites_api.serial < MaxSiteRequests
    /\ \E site_id \in SiteUuids \cup {NeverDrawn} :
          /\ sites_db' = delete_site(sites_db, site_id).db
          /\ sites_api' = Answered("delete", site_id, delete_site(sites_db, site_id))
          /\ sites_history' =
                IF delete_site(sites_db, site_id).status = 200
                THEN [sites_history EXCEPT !.deleted = @ \cup {site_id}]
                ELSE sites_history
    /\ UNCHANGED <<scoreVars, catVars, riskVars, extractVars, cacheVars, httpVars,
                   predictionVars, enrichVars, sharedVars, clientVars>>

-----------------------------------------------------------------------------
(* environmental_api_client.py: the source clients *)

\* the calls one behaviour makes, and the last hour its clock reaches: an
\* entry written at hour 0 is expired by then
MaxClientCalls == 2
MaxClientClock == ttl_hours + 1

\* the cache keys of the five methods at (-0.5, 37.0)
ClientKeys ==
    [chirps |-> "chirps_-0.5000_37.0000_clim",
     nasa_temp |-> "nasa_power_temp_-0.5000_37.0000",
     nasa_precip |-> "nasa_power_precip_-0.5000_37.0000",
     open_meteo |-> "open_meteo_temp_current_-0.5000_37.0000",
     soilgrids |-> "soilgrids_-0.5000_37.0000"]

ClientKeySet == {ClientKeys[method] : method \in DOMAIN ClientKeys}

\* a fixture file: absent, not readable as JSON, holding its values, or
\* holding a document without them
FixtureStates == {"absent", "unreadable", "whole", "no keys"}

\* what HTTPClient.get returns: None, {} for an empty body, the provider's
\* document, a document without the values asked for, or a document of
\* another shape on which the parse raises
Responses == {"None", "empty", "whole", "no values", "malformed"}

FetchFailed(response) == response \in {"None", "empty"}

\* a value and where it came from
From(origin, value) == [origin |-> origin, value |-> value]

\* CHIRPSClient._load_fixture, lines 249-263
CHIRPS_load_fixture(fixture) ==
    IF fixture = "whole" THEN From("fixture", Whole(950))
    ELSE From("default", Whole(120))

\* NASAPOWERClient._load_temperature_fixture, lines 428-446
NASA_load_temperature_fixture(fixture) ==
    IF fixture = "whole"
    THEN From("fixture", PyTuple(<<Float(21500), Whole(16), Whole(27)>>))
    ELSE From("default", PyTuple(<<Whole(20), Whole(15), Whole(25)>>))

\* NASAPOWERClient._load_rainfall_fixture, lines 448-463
NASA_load_rainfall_fixture(fixture) ==
    IF fixture = "whole" THEN From("fixture", Whole(800))
    ELSE From("default", Whole(120))

\* what a method call did: the events in their order, the value returned and
\* its origin, and the cache files after it
Outcome(log, returned, files) ==
    [log |-> log, result |-> returned.value, origin |-> returned.origin, files |-> files]

\* the method returns after line 240, 354, 420, 513 or 652: the value is
\* written to the cache and returned
SetAndReturn(log, files, key, now, entry, returned) ==
    Outcome(log \o <<"cache.set">>, returned, CacheManager_set(files, key, entry, now))

\* CHIRPSClient.get_rainfall_for_location, lines 219-247
CHIRPS_get_rainfall_for_location(files, now, fixture) ==
    LET key == ClientKeys.chirps
        cached == CacheManager_get(files, key, now)
        result == CHIRPS_load_fixture(fixture)
    IN  IF Truthy(cached)
        THEN Outcome(<<"cache.get">>, From("cache", cached.v.rainfall_mm), files)
        ELSE IF Truthy(result.value)
        THEN SetAndReturn(<<"cache.get", "load_fixture">>, files, key, now,
                          PyDict([rainfall_mm |-> result.value]), result)
        ELSE Outcome(<<"cache.get", "load_fixture">>, From("none", None), files)

\* NASAPOWERClient.get_temperature_climatology, lines 305-360
NASA_get_temperature_climatology(files, now, fixture, response) ==
    LET key == ClientKeys.nasa_temp
        cached == CacheManager_get(files, key, now)
        parsed == IF response = "whole"
                  THEN From("provider", <<Float(22400), Float(17100), Float(28300)>>)
                  ELSE From("default", <<Whole(20), Whole(15), Whole(25)>>)
    IN  IF Truthy(cached)
        THEN Outcome(<<"cache.get">>,
                     From("cache", PyTuple(<<cached.v.mean_c, cached.v.min_c, cached.v.max_c>>)),
                     files)
        ELSE IF FetchFailed(response) \/ response = "malformed"
        THEN Outcome(<<"cache.get", "http.get", "load_fixture">>,
                     NASA_load_temperature_fixture(fixture), files)
        ELSE SetAndReturn(<<"cache.get", "http.get">>, files, key, now,
                          PyDict([mean_c |-> parsed.value[1], min_c |-> parsed.value[2],
                                  max_c |-> parsed.value[3]]),
                          From(parsed.origin, PyTuple(parsed.value)))

\* NASAPOWERClient.get_rainfall_climatology, lines 377-426
NASA_get_rainfall_climatology(files, now, fixture, response) ==
    LET key == ClientKeys.nasa_precip
        cached == CacheManager_get(files, key, now)
        rainfall_mm_day == IF response = "whole" THEN From("provider", Whole(3))
                           ELSE From("default", Float(330))
        rainfall_mm_year == From(rainfall_mm_day.origin, FMul(rainfall_mm_day.value, Whole(365)))
    IN  IF Truthy(cached)
        THEN Outcome(<<"cache.get">>, From("cache", cached.v.rainfall_mm), files)
        ELSE IF FetchFailed(response) \/ response = "malformed"
        THEN Outcome(<<"cache.get", "http.get", "load_fixture">>,
                     NASA_load_rainfall_fixture(fixture), files)
        ELSE SetAndReturn(<<"cache.get", "http.get">>, files, key, now,
                          PyDict([rainfall_mm |-> rainfall_mm_year.value]), rainfall_mm_year)

\* OpenMeteoClient.get_temperature_current, lines 490-518
OpenMeteo_get_temperature_current(files, now, response) ==
    LET key == ClientKeys.open_meteo
        cached == CacheManager_get(files, key, now)
        temp_c == IF response = "whole" THEN From("provider", Float(24600))
                  ELSE From("default", Whole(20))
    IN  IF Truthy(cached)
        THEN Outcome(<<"cache.get">>, From("cache", cached.v.temp_c), files)
        ELSE IF FetchFailed(response) \/ response = "malformed"
        THEN Outcome(<<"cache.get", "http.get">>, From("none", None), files)
        ELSE SetAndReturn(<<"cache.get", "http.get">>, files, key, now,
                          PyDict([temp_c |-> temp_c.value]), temp_c)

\* a client that asks the provider whatever the cache holds
SoilGrids_get_soil_properties_refetch(files, now, response) ==
    LET key == ClientKeys.soilgrids
        result == PyDict([ph |-> Float(6200), soc |-> Whole(310), sand |-> Whole(40),
                          silt |-> Whole(25), clay |-> Whole(35),
                          bulk_density |-> Whole(130)])
    IN  IF FetchFailed(response) \/ response = "malformed"
        THEN Outcome(<<"cache.get", "http.get">>, From("none", None), files)
        ELSE SetAndReturn(<<"cache.get", "http.get">>, files, key, now, result,
                          From("provider", result))

\* SoilGridsClient.get_soil_properties, lines 549-657
SoilGrids_get_soil_properties(files, now, response) ==
    LET key == ClientKeys.soilgrids
        cached == CacheManager_get(files, key, now)
        result == IF response = "whole"
                  THEN From("provider",
                            PyDict([ph |-> Float(6200), soc |-> Whole(310), sand |-> Whole(40),
                                    silt |-> Whole(25), clay |-> Whole(35),
                                    bulk_density |-> Whole(130)]))
                  ELSE From("default",
                            PyDict([ph |-> Whole(6), soc |-> None, sand |-> None,
                                    silt |-> None, clay |-> None, bulk_density |-> None]))
    IN  IF Truthy(cached)
        THEN Outcome(<<"cache.get">>, From("cache", cached), files)
        ELSE IF FetchFailed(response) \/ response = "malformed"
        THEN Outcome(<<"cache.get", "http.get">>, From("none", None), files)
        ELSE SetAndReturn(<<"cache.get", "http.get">>, files, key, now, result.value, result)

NoClientCall ==
    [method |-> "", response |-> "", at |-> 0, hit |-> FALSE, before |-> NoFile,
     before_origin |-> "", log |-> << >>, result |-> None, origin |-> ""]

InitClients ==
    /\ source_clients \in
          [files : {[key \in ClientKeySet |-> NoFile]},
           origins : {[key \in ClientKeySet |-> ""]},
           clock : {0},
           chirps_fixture : FixtureStates,
           nasa_fixture : FixtureStates,
           calls : {0},
           last : {NoClientCall}]

\* the state after a call of the method that ended in the outcome
AfterCall(method, response, outcome) ==
    LET key == ClientKeys[method]
    IN  [source_clients EXCEPT
            !.files = outcome.files,
            !.origins[key] = IF "cache.set" \in {outcome.log[i] : i \in 1..Len(outcome.log)}
                             THEN outcome.origin ELSE @,
            !.calls = @ + 1,
            !.last = [method |-> method, response |-> response,
                      at |-> source_clients.clock,
                      hit |-> Truthy(CacheManager_get(source_clients.files, key,
                                                      source_clients.clock)),
                      before |-> source_clients.files[key],
                      before_origin |-> source_clients.origins[key],
                      log |-> outcome.log, result |-> outcome.result,
                      origin |-> outcome.origin]]

ChirpsGetRainfall ==
    /\ source_clients.calls < MaxClientCalls
    /\ source_clients' =
          AfterCall("chirps", "",
                    CHIRPS_get_rainfall_for_location(source_clients.files, source_clients.clock,
                                                     source_clients.chirps_fixture))
    /\ UNCHANGED <<scoreVars, catVars, riskVars, extractVars, cacheVars, httpVars,
                   predictionVars, enrichVars, sharedVars, siteVars>>

NasaGetTemperature ==
    /\ source_clients.calls < MaxClientCalls
    /\ \E response \in Responses :
          source_clients' =
              AfterCall("nasa_temp", response,
                        NASA_get_temperature_climatology(source_clients.files,
                            source_clients.clock, source_clients.nasa_fixture, response))
    /\ UNCHANGED <<scoreVars, catVars, riskVars, extractVars, cacheVars, httpVars,
                   predictionVars, enrichVars, sharedVars, siteVars>>

NasaGetRainfall ==
    /\ source_clients.calls < MaxClientCalls
    /\ \E response \in Responses :
          source_clients' =
              AfterCall("nasa_precip", response,
                        NASA_get_rainfall_climatology(source_clients.files,
                            source_clients.clock, source_clients.nasa_fixture, response))
    /\ UNCHANGED <<scoreVars, catVars, riskVars, extractVars, cacheVars, httpVars,
                   predictionVars, enrichVars, sharedVars, siteVars>>

OpenMeteoGetTemperature ==
    /\ source_clients.calls < MaxClientCalls
    /\ \E response \in Responses :
          source_clients' =
              AfterCall("open_meteo", response,
                        OpenMeteo_get_temperature_current(source_clients.files,
                            source_clients.clock, response))
    /\ UNCHANGED <<scoreVars, catVars, riskVars, extractVars, cacheVars, httpVars,
                   predictionVars, enrichVars, sharedVars, siteVars>>

SoilGridsGetProperties ==
    /\ source_clients.calls < MaxClientCalls
    /\ \E response \in Responses :
          source_clients' =
              AfterCall("soilgrids", response,
                        SoilGrids_get_soil_properties(source_clients.files,
                            source_clients.clock, response))
    /\ UNCHANGED <<scoreVars, catVars, riskVars, extractVars, cacheVars, httpVars,
                   predictionVars, enrichVars, sharedVars, siteVars>>

\* an hour passes
ClientTick ==
    /\ source_clients.clock < MaxClientClock
    /\ source_clients' = [source_clients EXCEPT !.clock = @ + 1]
    /\ UNCHANGED <<scoreVars, catVars, riskVars, extractVars, cacheVars, httpVars,
                   predictionVars, enrichVars, sharedVars, siteVars>>

-----------------------------------------------------------------------------
(* the specifications: one per component, the other components idle *)

\* the source clients before a call, their fixture files absent
InitClientsIdle ==
    source_clients =
        [files |-> [key \in ClientKeySet |-> NoFile],
         origins |-> [key \in ClientKeySet |-> ""],
         clock |-> 0, chirps_fixture |-> "absent", nasa_fixture |-> "absent",
         calls |-> 0, last |-> NoClientCall]

\* the shared cache, the sites and the source clients before anything happened
InitLast == InitShared /\ InitSites /\ InitClientsIdle

\* the cache, the HTTP client and the predictions before anything happened
InitLater == InitCache /\ InitHttp({0}) /\ InitPredictions /\ InitEnrich({<< >>}) /\ InitLast

NextCache == CacheSet \/ CacheGet \/ CacheTick

InitSpecCache ==
    InitScoring({NoFeatures}) /\ InitCategory /\ InitExtract /\ InitRisk({NoPayload})
    /\ InitLater

SpecCache == InitSpecCache /\ [][NextCache]_vars

NextHttp == HttpGet \/ HttpAttempt

InitSpecHttp ==
    InitScoring({NoFeatures}) /\ InitCategory /\ InitExtract /\ InitRisk({NoPayload})
    /\ InitCache /\ InitHttp(RetryArguments) /\ InitPredictions /\ InitEnrich({<< >>}) /\ InitLast

SpecHttp == InitSpecHttp /\ [][NextHttp]_vars

NextPrediction == Construct \/ CreatePrediction

InitSpecPrediction ==
    InitScoring({NoFeatures}) /\ InitCategory /\ InitStored /\ InitRisk({NoPayload})
    /\ InitCache /\ InitHttp({0}) /\ InitPredictions /\ InitEnrich({<< >>}) /\ InitLast

SpecPrediction == InitSpecPrediction /\ [][NextPrediction]_vars

NextEnrich ==
    EnrichAllCall \/ EnrichNextTower \/ EnrichLookup \/ EnrichPersist \/ EnrichAllReturn

InitSpecEnrich ==
    InitScoring({NoFeatures}) /\ InitCategory /\ InitExtract /\ InitRisk({NoPayload})
    /\ InitCache /\ InitHttp({0}) /\ InitPredictions /\ InitEnrich(TowerCollections) /\ InitLast

SpecEnrich == InitSpecEnrich /\ [][NextEnrich]_vars

NextShared ==
    \E c \in CacheClients : SharedSetOpen(c) \/ SharedSetWrite(c) \/ SharedGet(c)

InitSpecShared ==
    InitScoring({NoFeatures}) /\ InitCategory /\ InitExtract /\ InitRisk({NoPayload})
    /\ InitCache /\ InitHttp({0}) /\ InitPredictions /\ InitEnrich({<< >>}) /\ InitShared /\ InitSites /\ InitClientsIdle

SpecShared == InitSpecShared /\ [][NextShared]_vars

NextSites == CreateSite \/ GetSite \/ DeleteSite

InitSpecSites ==
    InitScoring({NoFeatures}) /\ InitCategory /\ InitExtract /\ InitRisk({NoPayload})
    /\ InitCache /\ InitHttp({0}) /\ InitPredictions /\ InitEnrich({<< >>}) /\ InitLast

SpecSites == InitSpecSites /\ [][NextSites]_vars

NextClients ==
    \/ ChirpsGetRainfall
    \/ NasaGetTemperature
    \/ NasaGetRainfall
    \/ OpenMeteoGetTemperature
    \/ SoilGridsGetProperties
    \/ ClientTick

InitSpecClients ==
    InitScoring({NoFeatures}) /\ InitCategory /\ InitExtract /\ InitRisk({NoPayload})
    /\ InitCache /\ InitHttp({0}) /\ InitPredictions /\ InitEnrich({<< >>})
    /\ InitShared /\ InitSites /\ InitClients

SpecClients == InitSpecClients /\ [][NextClients]_vars

\* the aggregator before a call, the scorers idle
Init ==
    InitExtract /\ InitScoring({NoFeatures}) /\ InitCategory /\ InitRisk({NoPayload}) /\ InitLater

Spec == Init /\ [][Next]_vars

\* the two scorers: the rule engine on every SiteFeatures of AllSiteFeatures,
\* the risk model on every payload of RiskPayloads
InitScorers ==
    \/ InitScoring(AllSiteFeatures) /\ InitRisk({NoPayload})
    \/ InitScoring({NoFeatures}) /\ InitRisk(RiskPayloads)

NextScoring == ComputeHealthScore \/ Construct \/ Predict

InitSpecScoring == InitScorers /\ InitCategory /\ InitExtract /\ InitLater

SpecScoring == InitSpecScoring /\ [][NextScoring]_vars

NextDeterminism ==
    ComputeHealthScore \/ OtherSiteFeatures(FewSiteFeatures) \/ KeepResult \/ Tick

InitDeterminism ==
    InitScoring(FewSiteFeatures) /\ InitCategory /\ InitExtract /\ InitRisk({NoPayload}) /\ InitLater

SpecDeterminism == InitDeterminism /\ [][NextDeterminism]_vars

\* get_health_category on every score of CategoryScores
InitCategoryScores ==
    /\ cat_score \in CategoryScores
    /\ cat_result = NoCategory

InitSpecCategory ==
    InitScoring({NoFeatures}) /\ InitCategoryScores /\ InitExtract /\ InitRisk({NoPayload}) /\ InitLater

SpecCategory == InitSpecCategory /\ [][GetHealthCategory]_vars

NextRisk == Construct \/ Predict

InitSpecRisk ==
    InitScoring({NoFeatures}) /\ InitCategory /\ InitExtract /\ InitRisk(RiskPayloads) /\ InitLater

SpecRisk == InitSpecRisk /\ [][NextRisk]_vars

-----------------------------------------------------------------------------
(* Properties of the scoring engine and of the risk model *)

InUnitInterval(x) == x.k = "float" /\ 0 <= x.v /\ x.v <= 1000

Scored == score_result # NoCall
Predicted == risk_result # NoPrediction

\* C1: scoring always succeeds with a score in [0,1]: compute_health_score
\* returns, without raising, a health_score in [0,1] whatever features are
\* present or None, and SiteRiskModel.predict returns, without raising, a score
\* in [0,1] with loaded weights and with the fallback heuristic.
C1_ScoreInUnitInterval ==
    /\ Scored => /\ score_result.result.raised = ""
                 /\ InUnitInterval(score_result.result.health_score)
    /\ Predicted => /\ risk_result.raised = ""
                    /\ InUnitInterval(risk_result.score)

\* the rule engine has scored features holding a nan, and the risk model has
\* predicted from loaded weights on an all-None payload
C1_Witness ==
    /\ Scored
    /\ score_result.features.ndvi_mean = NaN
    /\ score_result.features.elevation_m = None
    /\ Predicted
    /\ model.state = "LOADED"
    /\ risk_features = NoPayload

\* the rule predicates as the rule table states them
ExceedsClaim(x, bound) == (x.k = "float" /\ x.v > bound) \/ (x.k = "inf" /\ x.v > 0)
BelowClaim(x, bound) == (x.k = "float" /\ x.v < bound) \/ (x.k = "inf" /\ x.v < 0)
WithinClaim(x, lo, hi) == x.k = "float" /\ lo <= x.v /\ x.v <= hi

RulePointsClaim(f) == <<
    IF ExceedsClaim(f.ndvi_mean, 500) THEN 40 ELSE 0,
    IF BelowClaim(f.ndvi_std, 200) THEN 10 ELSE 0,
    IF ExceedsClaim(f.rainfall_mm, 120000) THEN 20 ELSE 0,
    IF WithinClaim(f.temp_mean_c, 15000, 25000) THEN 20 ELSE 0,
    IF WithinClaim(f.elevation_m, 1500000, 3000000) THEN 10 ELSE 0 >>

RawPointsClaim(f) ==
    RulePointsClaim(f)[1] + RulePointsClaim(f)[2] + RulePointsClaim(f)[3]
        + RulePointsClaim(f)[4] + RulePointsClaim(f)[5]

\* C4: raw points are the sum over the five rules of the rule's points when
\* its predicate holds and 0 otherwise, health_score is raw points / 100;
\* exactly 0.5, 0.2 and 120 earn nothing, exactly 15, 25, 1500 and 3000 earn
\* the points; all five predicates holding gives 1.0 and Excellent.
C4_PointsAreRuleSum ==
    Scored =>
        LET f == score_result.features
            r == score_result.result
        IN  /\ r.raw_points = Whole(RawPointsClaim(f))
            /\ r.health_score = Float(RawPointsClaim(f) * 10)
            /\ \A i \in 1..5 :
                  r.rule_results[i].points_earned = Whole(RulePointsClaim(f)[i])
            /\ f.ndvi_mean = Float(500) => r.rule_results[1].points_earned = Whole(0)
            /\ f.ndvi_std = Float(200) => r.rule_results[2].points_earned = Whole(0)
            /\ f.rainfall_mm = Whole(120) => r.rule_results[3].points_earned = Whole(0)
            /\ f.temp_mean_c \in {Whole(15), Whole(25)}
                  => r.rule_results[4].points_earned = Whole(20)
            /\ f.elevation_m \in {Whole(1500), Whole(3000)}
                  => r.rule_results[5].points_earned = Whole(10)
            /\ RawPointsClaim(f) = 100
                  => r.health_score = Float(1000) /\ r.category_name = "Excellent"

\* ndvi_mean=0.6, ndvi_std=0.1, rainfall=150, temp_mean=20, elevation=2000
\* scored 1.0, Excellent
C4_Witness ==
    /\ Scored
    /\ score_result.features =
          SiteFeatures(Float(600), Float(100), Whole(150), Whole(20), Whole(2000))
    /\ score_result.result.raw_points = Whole(100)
    /\ score_result.result.health_score = Float(1000)
    /\ score_result.result.category_name = "Excellent"

FeatureValues(f) ==
    << f.ndvi_mean, f.ndvi_std, f.rainfall_mm, f.temp_mean_c, f.elevation_m >>

\* C5: a rule whose feature is None is treated as unmet, earns 0 points and
\* explains itself as unavailable, treated as unmet; with all five features
\* None the score is 0.0, the category Critical and every explanation says so.
C5_MissingIsUnmet ==
    Scored =>
        LET f == score_result.features
            r == score_result.result
        IN  /\ \A i \in 1..5 :
                  FeatureValues(f)[i] = None
                    => /\ r.rule_results[i].met # "True"
                       /\ r.rule_results[i].points_earned = Whole(0)
                       /\ r.rule_results[i].explanation.text
                            = "unavailable (treated as unmet)"
            /\ f = NoFeatures
                  => /\ r.health_score = Float(0)
                     /\ r.category_name = "Critical"
                     /\ \A i \in 1..5 : r.rule_results[i].explanation.text
                                           = "unavailable (treated as unmet)"

\* all five features None, scored
C5_Witness ==
    /\ Scored
    /\ score_result.features = NoFeatures
    /\ score_result.result.health_score = Float(0)
    /\ score_result.result.category_name = "Critical"

\* the band the documentation gives a score, after clamping
BandClaim(score) ==
    LET s == IF score.k = "inf" THEN (IF score.v > 0 THEN 1000 ELSE 0)
             ELSE IF score.v < 0 THEN 0
             ELSE IF score.v > 1000 THEN 1000 ELSE score.v
    IN  IF s <= 200 THEN "Critical"
        ELSE IF s <= 400 THEN "Poor"
        ELSE IF s <= 600 THEN "Fair"
        ELSE IF s <= 800 THEN "Good"
        ELSE "Excellent"

Categorized == cat_result # NoCategory

\* C6: get_health_category is total and unambiguous: every score maps to one
\* of the five categories, a score on a shared boundary goes to the lower
\* band, 0.0 is Critical and 1.0 Excellent, scores outside [0,1] are clamped
\* first, and the return after the loop is never reached.
C6_CategoryLookup ==
    Categorized =>
        /\ cat_result.by = "loop"
        /\ cat_result.category.name
              \in {"Critical", "Poor", "Fair", "Good", "Excellent"}
        /\ cat_score.k \in {"float", "inf"}
              => cat_result.category.name = BandClaim(cat_score)
        /\ cat_score = Float(0) => cat_result.category.name = "Critical"
        /\ cat_score = Float(200) => cat_result.category.name = "Critical"
        /\ cat_score = Float(400) => cat_result.category.name = "Poor"
        /\ cat_score = Float(600) => cat_result.category.name = "Fair"
        /\ cat_score = Float(800) => cat_result.category.name = "Good"
        /\ cat_score = Float(1000) => cat_result.category.name = "Excellent"

\* a score on the boundary 0.6 was looked up and answered by the loop
C6_Witness ==
    /\ Categorized
    /\ cat_score = Float(600)
    /\ cat_result.category.name = "Fair"
    /\ cat_result.by = "loop"

\* what a score result says apart from the time it was made
ScoreCore(r) ==
    [raw_points |-> r.raw_points, health_score |-> r.health_score,
     category_name |-> r.category_name, rule_results |-> r.rule_results]

-----------------------------------------------------------------------------
(* Properties of the feature aggregator *)

Called(source) == \E i \in 1..Len(source_returns.invoked) : source_returns.invoked[i] = source

\* a pillar is unavailable when its source was asked and gave nothing
RainfallUnavailable == Called("rainfall") /\ IsNone(source_returns.rainfall)
TemperatureUnavailable == Called("temperature") /\ IsNone(source_returns.temperature)
SoilUnavailable == Called("soil") /\ IsNone(source_returns.soil)
NdviUnavailable ==
    /\ Called("ndvi")
    /\ \/ source_returns.ndvi.k = "raise"
       \/ /\ source_returns.ndvi.k = "dict"
          /\ \/ IsNone(source_returns.ndvi.v.ndvi_mean)
             \/ IsNone(source_returns.ndvi.v.ndvi_std)

SomePillarUnavailable ==
    RainfallUnavailable \/ TemperatureUnavailable \/ SoilUnavailable \/ NdviUnavailable

\* the call is past a source, and the document is assembled
Fetching == pc \in {"temperature", "soil", "ndvi", "assemble"}
Assembled == pc \in {"upload", "insert", "returned"}

\* C2: partial is false when all four pillars are returned by their sources
\* and true whenever any pillar is unavailable, whichever it is and in
\* whatever order the sources fail; once a pillar has made partial true no
\* later successful pillar resets it.
C2_PartialFlag ==
    /\ [](/\ (Fetching \/ Assembled) => (frame.is_partial <=> SomePillarUnavailable)
          /\ Assembled => (frame.features_doc.partial <=> SomePillarUnavailable)
          /\ \A i \in 1..Len(site_features_db) :
                site_features_db[i].partial <=> SomePillarUnavailable)
    /\ [][frame.is_partial => frame'.is_partial]_vars

\* rainfall failed first, every later pillar succeeded, and the record that
\* was stored is partial
C2_Witness ==
    /\ pc = "returned"
    /\ RainfallUnavailable
    /\ ~TemperatureUnavailable /\ ~SoilUnavailable /\ ~NdviUnavailable
    /\ site_features_db[1].partial

\* C3: the aggregator never fabricates a value to mask absence: when a source
\* is unavailable the record's fields of that pillar are null, never a
\* numeric placeholder.
C3_NeverFabricates ==
    Assembled =>
        LET doc == frame.features_doc
        IN  /\ RainfallUnavailable
                => IsNone(doc.rainfall_mean_mm_per_day) /\ IsNone(doc.rainfall_total_mm)
            /\ TemperatureUnavailable => IsNone(doc.tmin_c) /\ IsNone(doc.tmax_c)
            /\ SoilUnavailable
                => /\ IsNone(doc.soc) /\ IsNone(doc.sand) /\ IsNone(doc.clay)
                   /\ IsNone(doc.silt) /\ IsNone(doc.ph)

RequestIsValid ==
    /\ request.site_id \in Sites
    /\ ValidDate(request.start_date)
    /\ ValidDate(request.end_date)

InFlight == pc \in {"rainfall", "temperature", "soil", "ndvi", "assemble", "upload", "insert"}

\* C8: extract_features_for_site raises only when the site is not found or
\* the dates are invalid; whatever a source or the upload does, the call goes
\* on to return, persisting exactly one record, partial if a pillar failed.
C8_OnlyValidationRaises ==
    /\ pc = "raised" => ~RequestIsValid /\ site_features_db = << >>
    /\ InFlight => ENABLED Next /\ site_features_db = << >>
    /\ pc = "returned"
        => /\ Len(site_features_db) = 1
           /\ site_features_db[1] = frame.features_doc
           /\ SomePillarUnavailable => site_features_db[1].partial

\* soil and NDVI failed and the upload raised, and the call returned a
\* partial record
C8_Witness ==
    /\ pc = "returned"
    /\ SoilUnavailable
    /\ source_returns.ndvi.k = "dict" /\ NdviUnavailable
    /\ source_returns.upload = "raise"
    /\ Len(site_features_db) = 1
    /\ site_features_db[1].partial

\* C9: each pillar's available flag is false exactly when the pillar's source
\* was unavailable (for ndvi: mean or std missing), so partial is true if
\* and only if some available flag is false.
C9_AvailableFlags ==
    Assembled =>
        LET doc == frame.features_doc
            sb == doc.source_breakdown
        IN  /\ sb.rainfall.available <=> ~RainfallUnavailable
            /\ sb.temperature.available <=> ~TemperatureUnavailable
            /\ sb.soil.available <=> ~SoilUnavailable
            /\ sb.ndvi.available <=> ~NdviUnavailable
            /\ doc.partial <=> \/ ~sb.rainfall.available
                               \/ ~sb.temperature.available
                               \/ ~sb.soil.available
                               \/ ~sb.ndvi.available

\* the day after a date of the calendar
NextDay(dt) ==
    IF dt.d < DaysInMonth(dt.y, dt.m) THEN Date(dt.y, dt.m, dt.d + 1)
    ELSE IF dt.m < 12 THEN Date(dt.y, dt.m + 1, 1)
    ELSE Date(dt.y + 1, 1, 1)

Earlier(a, b) == <<a.y, a.m, a.d>> # <<b.y, b.m, b.d>> /\
    (a.y < b.y \/ (a.y = b.y /\ (a.m < b.m \/ (a.m = b.m /\ a.d < b.d))))

\* how many times the day advances from one date to a later one
RECURSIVE DaysBetween(_, _)
DaysBetween(a, b) == IF a = b THEN 0 ELSE 1 + DaysBetween(NextDay(a), b)

\* the days of start..end counted inclusively: end - start + 1
InclusiveDays(start_date, end_date) ==
    IF Earlier(end_date, start_date) THEN 1 - DaysBetween(end_date, start_date)
    ELSE DaysBetween(start_date, end_date) + 1

TenDays ==
    /\ request.start_date = Date(2024, 1, 1)
    /\ request.end_date = Date(2024, 1, 10)

\* C10: rainfall_total_mm = rainfall_mean_mm_per_day x D with D the days of
\* start_date..end_date counted inclusively: one day gives D = 1, and a mean
\* of 2.5 over 2024-01-01..2024-01-10 gives a total of 25.0; the rainfall
\* summary service counts the same way.
C10_RainfallTotal ==
    LET D == InclusiveDays(request.start_date, request.end_date)
    IN  /\ Assembled =>
            LET doc == frame.features_doc
            IN  /\ doc.rainfall_total_mm = FMul(doc.rainfall_mean_mm_per_day, Whole(D))
                /\ request.start_date = request.end_date
                      => doc.rainfall_total_mm = doc.rainfall_mean_mm_per_day
                /\ TenDays /\ doc.rainfall_mean_mm_per_day = Float(2500)
                      => doc.rainfall_total_mm = Whole(25)
        /\ (pc = "summarized" /\ ~IsNone(summary.rainfall_total_mm))
            => /\ summary.rainfall_total_mm
                    = FMul(summary.rainfall_mean_mm_per_day, Whole(D))
               /\ TenDays => summary.rainfall_total_mm = Whole(25)

\* a climatology of 912.5 mm gave a daily mean of 2.5, and the window
\* 2024-01-01..2024-01-10 a total of 25.0
C10_Witness ==
    /\ pc = "returned"
    /\ TenDays
    /\ source_returns.rainfall = Float(912500)
    /\ site_features_db[1].rainfall_mean_mm_per_day = Float(2500)
    /\ site_features_db[1].rainfall_total_mm = Whole(25)

\* C11: a request whose end_date is earlier than its start_date is rejected:
\* the call raises, and no record with a zero or negative day count, or a
\* negative rainfall_total_mm, is assembled or stored.
C11_EndBeforeStartRejected ==
    /\ (pc \notin {"idle", "raised", "summarized"}
            /\ ValidDate(request.start_date) /\ ValidDate(request.end_date)
            /\ Earlier(request.end_date, request.start_date))
        => ~Assembled
    /\ \A i \in 1..Len(site_features_db) :
          /\ InclusiveDays(site_features_db[i].start_date,
                           site_features_db[i].end_date) >= 1
          /\ ~FLt(site_features_db[i].rainfall_total_mm, Float(0))

\* the site of the request is stored and its centroid lies outside the
\* bounding box
CentroidOutOfBounds ==
    /\ request.site_id \in Sites
    /\ ~validate_kenya_bounds(Centroid(request.site_id).lat,
                              Centroid(request.site_id).lon)

\* C12: a site whose centroid lies outside the bounding box is a validation
\* failure: the request is rejected, the coordinates are not clamped, and no
\* record is produced from the out-of-bounds centroid.
C12_OutOfBoundsRejected ==
    /\ (InFlight \/ Assembled)
        => /\ frame.lat = Centroid(request.site_id).lat
           /\ frame.lon = Centroid(request.site_id).lon
           /\ ~CentroidOutOfBounds
    /\ \A i \in 1..Len(site_features_db) :
          validate_kenya_bounds(Centroid(site_features_db[i].site_id).lat,
                                Centroid(site_features_db[i].site_id).lon)

-----------------------------------------------------------------------------
(* Properties of the cache *)

\* what a get of key at the hour at is to return: the value of the latest
\* set while its age is at most the time-to-live, absent otherwise
FreshValue(key, at) ==
    IF cache_last_set[key].exists /\ at - cache_last_set[key].timestamp <= ttl_hours
    THEN cache_last_set[key].data
    ELSE None

-----------------------------------------------------------------------------
(* Properties of the HTTP client *)

\* the requests and the sleeps of the call so far, in order
RequestsMade == SelectSeq(http.log, LAMBDA e : e.ev = "request")
SleepsMade == SelectSeq(http.log, LAMBDA e : e.ev = "sleep")

Succeeded(outcome) == outcome \in {"json", "empty body"}
Transient(outcome) == outcome \in {"Timeout", "ConnectionError", "HTTP 429"}

\* C14: HTTPClient.get issues at most retry_attempts requests and always
\* returns: the parsed response of the first successful attempt, otherwise
\* None; whatever the requests end in, no exception escapes and the call
\* terminates.
C14_GetAlwaysReturns ==
    LET n == Len(RequestsMade)
    IN  /\ http.pc \in {"idle", "request", "returned"}
        /\ n <= http.retry_attempts
        /\ \A i \in 1..(n - 1) : ~Succeeded(RequestsMade[i].outcome)
        /\ http.pc = "request" => n < http.retry_attempts /\ ENABLED HttpAttempt
        /\ http.pc = "returned"
            => /\ n >= 1
               /\ http.result =
                    IF RequestsMade[n].outcome = "json" THEN Payload_of(n - 1)
                    ELSE IF RequestsMade[n].outcome = "empty body" THEN EmptyDict
                    ELSE None

\* every attempt was used up on timeouts and the call returned None
C14_Witness ==
    /\ http.pc = "returned"
    /\ Len(RequestsMade) = REQUEST_CONFIG.retry_attempts
    /\ \A i \in 1..Len(RequestsMade) : RequestsMade[i].outcome = "Timeout"
    /\ IsNone(http.result)

\* C15: on an HTTP error status other than 429 the call fails at once: it
\* returns None without sleeping and without a further attempt, however
\* many attempts remain.
C15_HttpErrorFailsAtOnce ==
    \A i \in 1..Len(http.log) :
        (http.log[i].ev = "request" /\ http.log[i].outcome \in {"HTTP 404", "HTTP 500"})
            => /\ i = Len(http.log)
               /\ http.pc = "returned"
               /\ IsNone(http.result)

\* the first request met a 500 with two attempts left
C15_Witness ==
    /\ http.retry_attempts = REQUEST_CONFIG.retry_attempts
    /\ http.pc = "returned"
    /\ http.log = << Requested("HTTP 500") >>
    /\ IsNone(http.result)

RECURSIVE Power(_, _)
Power(base, exponent) == IF exponent = 0 THEN 1 ELSE base * Power(base, exponent - 1)

RECURSIVE TotalSlept(_)
TotalSlept(sleeps) ==
    IF sleeps = << >> THEN 0 ELSE Head(sleeps).secs + TotalSlept(Tail(sleeps))

\* C16: two transient failures and a success on the third attempt return
\* the third payload, having slept retry_delay before the second attempt and
\* retry_delay x backoff_multiplier before the third (1 s, then 2 s, 3 s in
\* all); the sleep before retry k is retry_delay x backoff_multiplier^(k-1).
C16_BackoffSequence ==
    /\ \A k \in 1..Len(SleepsMade) :
          SleepsMade[k].secs = http.retry_delay * Power(http.backoff_multiplier, k - 1)
    /\ \A k \in 2..Len(RequestsMade) :
          \E i \in 2..Len(http.log) :
              /\ http.log[i] = Requested(RequestsMade[k].outcome)
              /\ Len(SelectSeq(SubSeq(http.log, 1, i), LAMBDA e : e.ev = "request")) = k
              /\ http.log[i - 1] = Slept(http.retry_delay
                                          * Power(http.backoff_multiplier, k - 2))
    /\ (/\ http.pc = "returned"
        /\ Len(RequestsMade) = 3
        /\ Transient(RequestsMade[1].outcome)
        /\ Transient(RequestsMade[2].outcome)
        /\ RequestsMade[3].outcome = "json")
        => /\ http.result = Payload_of(2)
           /\ SleepsMade = << Slept(1), Slept(2) >>
           /\ TotalSlept(SleepsMade) = 3

\* a timeout, a 429 and then a payload
C16_Witness ==
    /\ http.pc = "returned"
    /\ http.log = << Requested("Timeout"), Slept(1), Requested("HTTP 429"),
                     Slept(2), Requested("json") >>
    /\ http.result = Payload_of(2)

-----------------------------------------------------------------------------
(* Properties of model loading and of predictions *)

LoadedText == "Loaded model weights used."
FallbackText == "Fallback heuristic combining NDVI/rain/temp."

\* the one load attempt of the constructor found no file, or raised
LoadFailed == model.logged \in {"No torchgeo model path provided", "Failed to load model"}
LoadSucceeded == model.logged = "Loaded model weights"

\* C17: the weights are loaded once, at construction: a missing file or a
\* load that raises leaves the instance in FALLBACK (weights empty, bias
\* 0.0) with every predict on the fallback heuristic, otherwise it is LOADED
\* and every predict uses the weighted sum.
C17_LoadOnce ==
    /\ LoadFailed
        => /\ model.weights = NoWeights
           /\ model.bias = Whole(0)
           /\ Predicted => risk_result.reasoning = FallbackText
    /\ (LoadSucceeded /\ Predicted) => risk_result.reasoning = LoadedText

\* the score is the weighted sum over weights that a successful load set
UsedLoadedWeights == LoadSucceeded /\ model.weights # NoWeights

\* C18: every prediction records the path that produced its score: the
\* explanation is the loaded-model text exactly when the score is the
\* weighted sum over successfully loaded weights and the fallback text
\* otherwise, and model_version is a model file's version only on the
\* loaded-weights path, otherwise the default stub version.
C18_PathRecorded ==
    \A i \in 1..Len(site_predictions_db) :
        LET p == site_predictions_db[i]
        IN  /\ p.prediction_metadata.explanation
                 = (IF UsedLoadedWeights THEN LoadedText ELSE FallbackText)
            /\ ~UsedLoadedWeights => p.model_version = Unconstructed.version

\* C19: every prediction document is derived from exactly one Feature
\* Record: its features_id and site_id are that record's id and site_id, its
\* partial flag is that record's partial flag, false when the record has
\* none; creating it inserts exactly one prediction and leaves the Feature
\* Records as they were.
C19_DerivedFromOneRecord ==
    /\ [](/\ Len(site_predictions_db) = Len(prediction_calls)
          /\ \A i \in 1..Len(site_predictions_db) :
                LET p == site_predictions_db[i]
                    f == prediction_calls[i]
                IN  /\ \E j \in 1..Len(site_features_db) : site_features_db[j] = f
                    /\ p.features_id = f.id
                    /\ p.site_id = f.site_id
                    /\ p.partial = (IF "partial" \in DOMAIN f THEN f.partial ELSE FALSE)
                    /\ \A j \in 1..Len(site_predictions_db) : j # i => site_predictions_db[j].id # p.id)
    /\ [][prediction_calls' # prediction_calls
            => /\ Len(site_predictions_db') = Len(site_predictions_db) + 1
               /\ SubSeq(site_predictions_db', 1, Len(site_predictions_db))
                     = site_predictions_db
               /\ site_features_db' = site_features_db]_vars

\* a prediction from the partial record and one from the record that has no
\* partial field
C19_Witness ==
    /\ Len(site_predictions_db) = 2
    /\ site_predictions_db[1].features_id = "features-2"
    /\ site_predictions_db[1].partial
    /\ site_predictions_db[2].features_id = "features-3"
    /\ ~site_predictions_db[2].partial

\* the enrichments begun and not yet ended
InProgress == Len(enrich_all.started) - Len(enrich_all.ended)

\* C20: within one enrich_all_water_towers call at most one enrichment is in
\* progress; the enrichments begin in cursor order, each after the one before
\* it has ended; when the call is over every tower of the cursor has been
\* attempted exactly once, whichever towers failed; and every document of the
\* result is a tower of the cursor that update_one has updated in this call
\* and that did not fail.
C20_OneTowerAtATime ==
    /\ InProgress \in {0, 1}
    /\ Len(enrich_all.started) <= Len(enrich_all.cursor)
    /\ enrich_all.started = SubSeq(Ids(enrich_all.cursor), 1, Len(enrich_all.started))
    /\ enrich_all.ended = SubSeq(enrich_all.started, 1, Len(enrich_all.ended))
    /\ enrich_all.pc \in {"returned", "raised"} =>
          /\ enrich_all.started = Ids(enrich_all.cursor)
          /\ enrich_all.ended = enrich_all.started
    /\ enrich_all.pc = "returned" =>
          \A i \in 1..Len(enrich_all.response) :
             /\ \E k \in 1..Len(enrich_all.cursor) :
                   /\ enrich_all.cursor[k].id = enrich_all.response[i].id
                   /\ enrich_all.response[i].updates = enrich_all.cursor[k].updates + 1
             /\ \A j \in 1..Len(enrich_all.failed) :
                   enrich_all.failed[j] # enrich_all.response[i].id

\* a call over three towers has returned: the first tower failed and the two
\* after it were updated and are the result
C20_Witness ==
    /\ enrich_all.pc = "returned"
    /\ Len(enrich_all.cursor) = 3
    /\ enrich_all.failed = <<enrich_all.cursor[1].id>>
    /\ Ids(enrich_all.response) = <<enrich_all.cursor[2].id, enrich_all.cursor[3].id>>

\* the call found its site
PassedLookup == ~IsNone(frame.lat)

\* the call is past its four sources or over
SourcesOver == pc \in {"assemble", "upload", "insert", "returned", "raised"}

\* the sources invoked so far, the upload aside
SourcesInvoked == SelectSeq(source_returns.invoked, LAMBDA s : s # "upload")

FourSources == <<"rainfall", "temperature", "soil", "ndvi">>

\* C23: in every extract_features_for_site call that passes the site lookup
\* the four sources are invoked in turn, each at most once while the call
\* runs, and each exactly once when the call is past them or over, whichever
\* of them failed.
C23_NoShortCircuit ==
    /\ Len(SourcesInvoked) <= 4
    /\ SourcesInvoked = SubSeq(FourSources, 1, Len(SourcesInvoked))
    /\ (PassedLookup /\ SourcesOver) => SourcesInvoked = FourSources

\* a call has returned in which rainfall, temperature and soil all failed and
\* NDVI was still computed
C23_Witness ==
    /\ pc = "returned"
    /\ RainfallUnavailable /\ TemperatureUnavailable /\ SoilUnavailable
    /\ ~NdviUnavailable
    /\ SourcesInvoked = FourSources

\* the log with every 429 taken for a timeout
AsTimeout(outcome) == IF outcome = "HTTP 429" THEN "Timeout" ELSE outcome

\* HTTPClient.get run again from its start on a sequence of request outcomes
RECURSIVE Replay(_, _)
Replay(h, outcomes) ==
    IF outcomes = << >> \/ h.pc # "request" THEN h
    ELSE Replay(NextAttempt(TryRequest(h, Head(outcomes))), Tail(outcomes))

\* the call that met a timeout wherever this call met a 429
WithTimeouts ==
    Replay([http EXCEPT !.pc = "request", !.attempt = 0, !.delay = http.retry_delay,
                        !.result = None, !.log = << >>],
           [i \in 1..Len(RequestsMade) |-> AsTimeout(RequestsMade[i].outcome)])

\* C27: HTTPClient.get treats a 429 as it treats a timeout: a call that has
\* returned made as many requests, slept the same sequence of delays and
\* returned the same result as the call that meets a timeout wherever this
\* one met a 429; no sleep follows the last request.
C27_RateLimitAsTimeout ==
    http.pc = "returned" =>
        /\ WithTimeouts.pc = "returned"
        /\ Len(SelectSeq(WithTimeouts.log, LAMBDA e : e.ev = "request")) = Len(RequestsMade)
        /\ SelectSeq(WithTimeouts.log, LAMBDA e : e.ev = "sleep") = SleepsMade
        /\ WithTimeouts.result = http.result
        /\ http.log[Len(http.log)].ev = "request"

-----------------------------------------------------------------------------
(* Properties of the rule results *)

\* compute_health_score has returned a dictionary
ReturnedScore == Scored /\ score_result.result.raised = ""

RECURSIVE SumEarned(_, _)
SumEarned(rule_results, n) ==
    IF n = 0 THEN 0 ELSE SumEarned(rule_results, n - 1) + rule_results[n].points_earned.v

\* C28: every compute_health_score result has five rule results in the order
\* NDVI mean, NDVI std, rainfall, temperature, elevation; each earned its
\* rule's points_if_met exactly when its met flag is true and 0 otherwise;
\* raw_points is the sum of the five; and the scoring breakdown of the
\* explanation lists the rules in that order, a rule marked passed exactly
\* when its met flag is true, with the points it earned.
C28_RuleResults ==
    ReturnedScore =>
        LET result == score_result.result
            breakdown == ScoringBreakdown(result)
        IN  /\ Len(result.rule_results) = 5
            /\ Len(breakdown) = 5
            /\ \A i \in 1..5 :
                  /\ result.rule_results[i].rule = SCORING_RULES[i].condition
                  /\ result.rule_results[i].feature_value = score_result.features[SCORING_RULES[i].feature_name]
                  /\ result.rule_results[i].points_earned =
                        IF result.rule_results[i].met = "True"
                        THEN SCORING_RULES[i].points_if_met ELSE Whole(0)
                  /\ breakdown[i].rule = SCORING_RULES[i].condition
                  /\ (breakdown[i].status = "passed") = (result.rule_results[i].met = "True")
                  /\ breakdown[i].points = result.rule_results[i].points_earned
            /\ result.raw_points = Float(SumEarned(result.rule_results, 5))

\* a result whose rules are, in order, unmet, unavailable, met, met and unmet
C28_Witness ==
    /\ ReturnedScore
    /\ [i \in 1..5 |-> score_result.result.rule_results[i].met]
          = <<"False", "None", "True", "True", "False">>
    /\ score_result.result.raw_points = Whole(40)

-----------------------------------------------------------------------------
(* Properties of complete records *)

SourceFedFields ==
    {"ndvi_mean", "ndvi_std", "rainfall_mean_mm_per_day", "tmin_c", "tmax_c",
     "soc", "sand", "clay", "silt", "ph"}

\* C29: a persisted Feature Record with partial = false has every source-fed
\* field non-null: a source that answered with some of its values missing
\* makes the record partial.
C29_CompleteWhenNotPartial ==
    \A i \in 1..Len(site_features_db) :
        ~site_features_db[i].partial =>
            \A field \in SourceFedFields : ~IsNone(site_features_db[i][field])

-----------------------------------------------------------------------------
(* Properties of the fallback heuristic *)

\* config.py: VALIDATION["feature_ranges"], under the names of the payload;
\* the soil index, organic carbon, has no upper end in the configuration
feature_ranges ==
    [ndvi_mean |-> <<Whole(-1), Whole(1)>>,
     rainfall_mean |-> <<Whole(0), Whole(5000)>>,
     temp_mean |-> <<Whole(-50), Whole(50)>>,
     soil_index |-> <<Whole(0), PosInf>>]

InValidRange(key, x) ==
    /\ x.k = "float"
    /\ FLe(feature_ranges[key][1], x)
    /\ FLe(x, feature_ranges[key][2])

\* the prediction is the fallback heuristic's
ByFallback == Predicted /\ risk_result.raised = "" /\ risk_result.reasoning = FallbackText

\* C30: absence is never scored favorably by the fallback heuristic: for a
\* payload and any one of ndvi_mean, rainfall_mean, temp_mean, soil_index
\* present in its valid range, the payload with that value replaced by None
\* scores no higher than the payload itself.
C30_AbsenceNeverFavorable ==
    ByFallback =>
        \A key \in DOMAIN feature_ranges :
            InValidRange(key, risk_features[key]) =>
                FLe(predict(model, [risk_features EXCEPT ![key] = None]).score,
                    risk_result.score)

-----------------------------------------------------------------------------
(* Properties of the shared cache *)

\* a set on the key has opened the file and not yet written it
SetInProgress(key) ==
    \E c \in CacheClients : cache_clients[c].pc = "opened" /\ cache_clients[c].key = key

\* C21: under any interleaving of gets and sets of clients sharing the cache
\* directory, a key no set has touched has no file, a get returns None or a
\* value some set on its key wrote, and once every set on a key has completed
\* a get on the key returns the value of one of them.
C21_SharedCache ==
    /\ \A key \in CacheKeys :
          cache_sets[key].begun = {} => cache_dir[key] = NoCacheFile
    /\ \A c \in CacheClients :
          cache_clients[c].op = "get" =>
              \/ cache_clients[c].got = "None"
              \/ cache_clients[c].got \in cache_sets[cache_clients[c].key].begun
    /\ \A key \in CacheKeys :
          (cache_sets[key].completed # {} /\ ~SetInProgress(key)) =>
              ReadShared(cache_dir[key]) \in cache_sets[key].completed

-----------------------------------------------------------------------------
(* Properties of the sites API *)

\* the site was created through POST /api/sites and has not been deleted
Retrievable(site_id) ==
    /\ site_id \in SiteUuids
    /\ sites_history.created[site_id] # ""
    /\ site_id \notin sites_history.deleted

\* what GET /api/sites/{site_id} has to answer
ExpectedOfGet(site_id) ==
    IF Retrievable(site_id)
    THEN [status |-> 200, body |-> [id |-> site_id, name |-> sites_history.created[site_id]]]
    ELSE [status |-> 404, body |-> NoBody]

\* C22: a site created through POST /api/sites is retrievable: until it is
\* deleted GET with its id answers 200 with that id and the name it was
\* created with, whatever other sites are created or deleted in between;
\* GET for an id never created or since deleted answers 404.
C22_SiteRetrievable ==
    /\ [](\A site_id \in SiteUuids \cup {NeverDrawn} :
            /\ get_site(sites_db, site_id).status = ExpectedOfGet(site_id).status
            /\ get_site(sites_db, site_id).body = ExpectedOfGet(site_id).body)
    /\ [][(sites_api'.serial # sites_api.serial /\ sites_api'.op = "get") =>
            /\ sites_api'.status = ExpectedOfGet(sites_api'.id).status
            /\ sites_api'.body = ExpectedOfGet(sites_api'.id).body]_vars

\* the first site is read with 200 after a second site was created and
\* deleted again
C22_Witness ==
    /\ sites_api.op = "get" /\ sites_api.id = 1 /\ sites_api.status = 200
    /\ sites_api.body = [id |-> 1, name |-> sites_history.created[1]]
    /\ sites_history.created[2] # ""
    /\ sites_history.deleted = {2}

-----------------------------------------------------------------------------
(* the source clients: cache first, fallbacks, and what is cached *)

\* the latest call of a source client
LastCall == source_clients.last

ClientCalled == LastCall.method # ""

\* the call found an entry under its key, no older than the time-to-live
FoundFresh ==
    /\ LastCall.before.exists
    /\ LastCall.at - LastCall.before.timestamp <= ttl_hours

\* what the method returns of the data of a cache entry
CachedValue(method, data) ==
    CASE method \in {"chirps", "nasa_precip"} -> data.v.rainfall_mm
      [] method = "nasa_temp" -> PyTuple(<<data.v.mean_c, data.v.min_c, data.v.max_c>>)
      [] method = "open_meteo" -> data.v.temp_c
      [] OTHER -> data

Did(event) == \E i \in 1..Len(LastCall.log) : LastCall.log[i] = event

\* C24: a source client that finds a present and fresh cache entry under its
\* key returns the cached value and does nothing else: no HTTP request, no
\* fixture read, no cache write; an HTTP request is issued only after a cache
\* miss or an expired entry.
C24_CacheFirst ==
    ClientCalled =>
        /\ FoundFresh =>
              /\ LastCall.log = <<"cache.get">>
              /\ LastCall.result = CachedValue(LastCall.method, LastCall.before.data)
              /\ source_clients.files[ClientKeys[LastCall.method]] = LastCall.before
        /\ Did("http.get") => ~FoundFresh

\* a client found a fresh entry under its key, written by an earlier call
C24_Witness ==
    /\ ClientCalled /\ FoundFresh
    /\ LastCall.method = "soilgrids"
    /\ LastCall.result = LastCall.before.data

\* the fetch or the parse of the call failed
FetchOrParseFailed ==
    Did("http.get") /\ (FetchFailed(LastCall.response) \/ LastCall.response = "malformed")

\* the fixture file of the method exists and can be read
FixtureReadable(method) ==
    CASE method = "chirps" -> source_clients.chirps_fixture \in {"whole", "no keys"}
      [] method \in {"nasa_temp", "nasa_precip"} ->
            source_clients.nasa_fixture \in {"whole", "no keys"}
      [] OTHER -> FALSE

\* C25: for every source client, when the fetch or the parse fails the client
\* returns the bundled fixture value if its fixture file exists and can be
\* read, and None if it does not; it never returns a hard-coded default in
\* place of unavailable.
C25_FixtureOrUnavailable ==
    ClientCalled =>
        /\ FetchOrParseFailed =>
              IF FixtureReadable(LastCall.method)
              THEN LastCall.origin = "fixture"
              ELSE LastCall.result = None
        /\ LastCall.origin # "default"

\* C26: a source client writes to the cache only a value obtained from a
\* successful live fetch and parse of the provider response: an entry of the
\* cache never holds a fixture value or a hard-coded default, so a cache hit
\* never serves one.
C26_OnlyProviderDataCached ==
    /\ \A key \in ClientKeySet :
          source_clients.files[key].exists => source_clients.origins[key] = "provider"
    /\ (ClientCalled /\ LastCall.hit) => LastCall.before_origin = "provider"

=============================================================================
